---- MODULE Spec2Model ----
(***************************************************************************)
(* Model of evalgo-org/claude-tools: pkg/awk, the pattern-action           *)
(* interpreter (Spec), pkg/sed, the stream editor (SedSpec), pkg/mv        *)
(* (MvSpec) and pkg/rm (RmSpec).  Text is modelled as sequences of         *)
(* one-character strings, so that the parsers' slicing and searching is    *)
(* modelled as the code does it.  Numbers are integers: every number the   *)
(* modelled inputs can produce is a sum of non-negative decimal fields.    *)
(* A path is the sequence of its components.                               *)
(***************************************************************************)
EXTENDS Integers, Sequences, FiniteSets, TLC

(* ------------------------------ bounds --------------------------------- *)
\* longest input stream, in lines
MaxLines == 3
\* most file arguments of one command invocation
MaxFiles == 2

(* --------------------- Go string functions (package strings) ----------- *)
\* s[i:j] of Go (0-based, j exclusive)
Slice(s, i, j) == SubSeq(s, i + 1, j)

\* s[i:] of Go
SliceFrom(s, i) == SubSeq(s, i + 1, Len(s))

\* unicode.IsSpace, on the characters of the modelled alphabet
IsSpace(c) == c \in {" ", "\t"}

RECURSIVE TrimLeft(_)
TrimLeft(s) ==
    IF s # <<>> /\ IsSpace(Head(s)) THEN TrimLeft(Tail(s)) ELSE s

RECURSIVE TrimRight(_)
TrimRight(s) ==
    IF s # <<>> /\ IsSpace(s[Len(s)]) THEN TrimRight(SubSeq(s, 1, Len(s) - 1)) ELSE s

\* strings.TrimSpace
TrimSpace(s) == TrimRight(TrimLeft(s))

\* strings.HasPrefix
HasPrefix(s, p) == Len(s) >= Len(p) /\ SubSeq(s, 1, Len(p)) = p

\* strings.HasSuffix
HasSuffix(s, p) == Len(s) >= Len(p) /\ SubSeq(s, Len(s) - Len(p) + 1, Len(s)) = p

\* strings.TrimPrefix
TrimPrefix(s, p) == IF HasPrefix(s, p) THEN SliceFrom(s, Len(p)) ELSE s

\* strings.Index: 0-based index of the first occurrence of sub in s, -1 if none
Index(s, sub) ==
    LET hits == {i \in 0..(Len(s) - Len(sub)) : Slice(s, i, i + Len(sub)) = sub}
    IN  IF hits = {} THEN -1 ELSE CHOOSE i \in hits : \A j \in hits : i <= j

\* strings.Contains
Contains(s, sub) == Index(s, sub) >= 0

\* strings.Split(s, sep) for a non-empty sep
RECURSIVE SplitSep(_, _)
SplitSep(s, sep) ==
    LET i == Index(s, sep)
    IN  IF i < 0 THEN <<s>>
        ELSE <<Slice(s, 0, i)>> \o SplitSep(SliceFrom(s, i + Len(sep)), sep)

\* strings.Split: an empty sep explodes s into its characters
Split(s, sep) ==
    IF sep = <<>> THEN [i \in 1..Len(s) |-> <<s[i]>>] ELSE SplitSep(s, sep)

\* strings.SplitN(s, sep, 2) for a non-empty sep
SplitN2(s, sep) ==
    LET i == Index(s, sep)
    IN  IF i < 0 THEN <<s>> ELSE <<Slice(s, 0, i), SliceFrom(s, i + Len(sep))>>

\* strings.Fields: the maximal runs of non-space characters
RECURSIVE Fields(_)
Fields(s) ==
    LET t == TrimLeft(s)
        ends == {i \in 1..Len(t) : IsSpace(t[i])}
        e == IF ends = {} THEN Len(t) + 1 ELSE CHOOSE i \in ends : \A j \in ends : i <= j
    IN  IF t = <<>> THEN <<>>
        ELSE <<SubSeq(t, 1, e - 1)>> \o Fields(SubSeq(t, e, Len(t)))

\* strings.Join
RECURSIVE Join(_, _)
Join(parts, sep) ==
    IF parts = <<>> THEN <<>>
    ELSE IF Len(parts) = 1 THEN parts[1]
    ELSE parts[1] \o sep \o Join(Tail(parts), sep)

(* --------------------- Go number conversions (package strconv, fmt) ---- *)
Digits == <<"0", "1", "2", "3", "4", "5", "6", "7", "8", "9">>

IsDigit(c) == \E d \in 1..10 : Digits[d] = c

DigitVal(c) == (CHOOSE d \in 1..10 : Digits[d] = c) - 1

RECURSIVE DecVal(_)
DecVal(s) == IF s = <<>> THEN 0 ELSE 10 * DecVal(SubSeq(s, 1, Len(s) - 1)) + DigitVal(s[Len(s)])

\* strconv.Atoi: an optional sign and at least one decimal digit
Atoi(s) ==
    LET signed == s # <<>> /\ s[1] \in {"+", "-"}
        body == IF signed THEN Tail(s) ELSE s
        ok == body # <<>> /\ \A i \in 1..Len(body) : IsDigit(body[i])
    IN  IF ~ok THEN [ok |-> FALSE, val |-> 0]
        ELSE [ok |-> TRUE, val |-> IF signed /\ s[1] = "-" THEN 0 - DecVal(body) ELSE DecVal(body)]

\* strconv.ParseFloat(s, 64) with the error discarded, on the modelled
\* alphabet (no ".", exponent, hex, "inf", "nan"): a syntax error yields 0
ParseFloat(s) == Atoi(s).val

RECURSIVE FormatNat(_)
FormatNat(n) == IF n < 10 THEN <<Digits[n + 1]>> ELSE FormatNat(n \div 10) \o <<Digits[(n % 10) + 1]>>

\* fmt.Sprintf("%v", float64) of an integral value below 1e21
FormatFloat(n) == IF n < 0 THEN <<"-">> \o FormatNat(0 - n) ELSE FormatNat(n)

(* ------------------------------ program text --------------------------- *)
kwBEGIN == <<"B", "E", "G", "I", "N">>

kwEND == <<"E", "N", "D">>

kwPrint == <<"p", "r", "i", "n", "t">>

kwNR == <<"N", "R", "=", "=">>

(* ------------------------------ parser --------------------------------- *)
Ok(v) == [ok |-> TRUE, val |-> v, err |-> "nil"]

Err(e) == [ok |-> FALSE, val |-> <<>>, err |-> e]

\* a nil map[string]float64, as Action.Variables is before the first Execute
NilVariables == [isNil |-> TRUE, m |-> <<>>]

\* regexp.Compile on the modelled pattern alphabet: letters, digits, blanks
\* and commas are literals, and a "(" is never closed
RegexCompiles(patternStr) == \A i \in 1..Len(patternStr) : patternStr[i] # "("

\* parseExpression, "Field reference": the result of strconv.Atoi as an Expression
fieldExpression(fieldNum) ==
    IF fieldNum.ok THEN Ok([kind |-> "field", FieldNum |-> fieldNum.val]) ELSE Err("invalid field")

\* parseExpression
parseExpression(str) ==
    LET exprStr == TrimSpace(str)
    IN  IF HasPrefix(exprStr, <<"$">>) THEN fieldExpression(Atoi(SliceFrom(exprStr, 1)))
        ELSE Ok([kind |-> "variable", Name |-> exprStr])

\* parsePrint that takes field 0 for a field number it cannot read
fieldRefLenient(fieldNum) == Ok([Field |-> fieldNum.val, Var |-> <<>>])

\* parsePrint: the result of strconv.Atoi as a FieldRef
fieldRef(fieldNum) ==
    IF fieldNum.ok THEN Ok([Field |-> fieldNum.val, Var |-> <<>>]) ELSE Err("invalid field")

\* one element of parsePrint's comma-separated list
parsePrintField(str) ==
    LET field == TrimSpace(str)
    IN  IF HasPrefix(field, <<"$">>) THEN fieldRef(Atoi(SliceFrom(field, 1)))
        ELSE Ok([Field |-> 0, Var |-> field])

\* parsePrint: stmt.Fields = append(stmt.Fields, ...), unless an error was returned
appendFieldRef(ref, refs) ==
    IF ~ref.ok THEN ref ELSE IF ~refs.ok THEN refs ELSE Ok(<<ref.val>> \o refs.val)

\* parsePrint's loop over the comma-separated list
RECURSIVE parsePrintFields(_)
parsePrintFields(fields) ==
    IF fields = <<>> THEN Ok(<<>>)
    ELSE appendFieldRef(parsePrintField(Head(fields)), parsePrintFields(Tail(fields)))

\* parsePrint: the PrintStatement of the parsed list
printStatement(refs) == IF refs.ok THEN Ok([kind |-> "print", Fields |-> refs.val]) ELSE refs

\* parsePrint
parsePrint(str) ==
    LET printStr == TrimSpace(TrimPrefix(str, kwPrint))
    IN  IF printStr = <<>> \/ printStr = <<"$", "0">>
        THEN Ok([kind |-> "print", Fields |-> <<>>])
        ELSE printStatement(parsePrintFields(Split(printStr, <<",">>)))

\* parseStatement that builds `var = expr` for `var+=expr`
assignStatementPlain(varName, expr) ==
    IF expr.ok THEN Ok([kind |-> "assign", Variable |-> varName, Expr |-> expr.val]) ELSE expr

\* parseStatement: the AssignStatement of `var+=expr`
assignStatement(varName, expr) ==
    IF expr.ok
    THEN Ok([kind |-> "assign", Variable |-> varName,
             Expr |-> [kind |-> "binary",
                       Left |-> [kind |-> "variable", Name |-> varName],
                       Op |-> "+",
                       Right |-> expr.val]])
    ELSE expr

\* parseStatement, "Assignment"
parseAssign(parts) == assignStatement(TrimSpace(parts[1]), parseExpression(TrimSpace(parts[2])))

\* parseStatement
parseStatement(str) ==
    LET stmtStr == TrimSpace(str)
    IN  IF HasPrefix(stmtStr, kwPrint) THEN parsePrint(stmtStr)
        ELSE IF Contains(stmtStr, <<"+", "=">>) THEN parseAssign(SplitN2(stmtStr, <<"+", "=">>))
        ELSE Err("unsupported statement")

\* parseAction that appends the parsed statement twice
actionOfTwice(stmt) ==
    IF stmt.ok THEN Ok([Statements |-> <<stmt.val, stmt.val>>, Variables |-> NilVariables])
    ELSE stmt

\* parseAction: the Action of the parsed statement
actionOf(stmt) ==
    IF stmt.ok THEN Ok([Statements |-> <<stmt.val>>, Variables |-> NilVariables]) ELSE stmt

\* parseAction, "Parse statements": the text between the braces
parseActionBody(body) ==
    LET actionStr == TrimSpace(body)
    IN  IF actionStr = <<>> THEN Ok([Statements |-> <<>>, Variables |-> NilVariables])
        ELSE actionOf(parseStatement(actionStr))

\* parseAction without the check for the closing brace
parseActionNoSuffix(str) ==
    LET trimmed == TrimSpace(str)
    IN  IF ~HasPrefix(trimmed, <<"{">>)
        THEN Err("action must be enclosed in braces")
        ELSE parseActionBody(IF HasSuffix(trimmed, <<"}">>)
                             THEN Slice(trimmed, 1, Len(trimmed) - 1)
                             ELSE SliceFrom(trimmed, 1))

\* parseAction
parseAction(str) ==
    LET trimmed == TrimSpace(str)
    IN  IF ~HasPrefix(trimmed, <<"{">>) \/ ~HasSuffix(trimmed, <<"}">>)
        THEN Err("action must be enclosed in braces")
        ELSE parseActionBody(Slice(trimmed, 1, Len(trimmed) - 1))

\* parseRule's default action: print
DefaultAction ==
    [Statements |-> <<[kind |-> "print", Fields |-> <<>>]>>, Variables |-> NilVariables]

\* parseRule, "Parse pattern": the pattern and the text after it
parsePattern(ruleStr) ==
    LET endIdx == Index(SliceFrom(ruleStr, 1), <<"/">>)
        patternStr == Slice(ruleStr, 1, endIdx + 1)
        parts == SplitN2(ruleStr, <<" ">>)
        lineNum == Atoi(TrimPrefix(parts[1], kwNR))
    IN  IF HasPrefix(ruleStr, <<"/">>)
        THEN IF endIdx = -1 THEN Err("missing closing / for pattern")
             ELSE IF ~RegexCompiles(patternStr) THEN Err("invalid regex")
             ELSE Ok([Pattern |-> [kind |-> "regex", Regex |-> patternStr],
                      rest |-> TrimSpace(SliceFrom(ruleStr, endIdx + 2))])
        ELSE IF HasPrefix(ruleStr, kwNR)
        THEN IF ~lineNum.ok THEN Err("invalid line number")
             ELSE Ok([Pattern |-> [kind |-> "line", LineNumber |-> lineNum.val],
                      rest |-> IF Len(parts) > 1 THEN TrimSpace(parts[2]) ELSE <<>>])
        ELSE Ok([Pattern |-> [kind |-> "always"], rest |-> ruleStr])

\* parseRule: the Rule of the pattern and the parsed action
ruleOf(pattern, action) ==
    IF action.ok THEN Ok([Pattern |-> pattern, Action |-> action.val]) ELSE action

\* parseRule, "Parse action": the action after the pattern
parseRuleAction(pattern, ruleStr) ==
    IF ruleStr = <<>> THEN Ok([Pattern |-> pattern, Action |-> DefaultAction])
    ELSE ruleOf(pattern, parseAction(ruleStr))

\* parseRule after "Parse pattern"
parseRuleAfter(p) == IF p.ok THEN parseRuleAction(p.val.Pattern, p.val.rest) ELSE p

\* parseRule
parseRule(str) == parseRuleAfter(parsePattern(TrimSpace(str)))

\* a parsed *Action or *Rule as Program holds it: none (nil, empty) or one
pointerTo(res) == IF res.ok THEN Ok(<<res.val>>) ELSE res

\* parseProgram, "Parse BEGIN" and "Parse END"
parseBlock(present, str) == IF present THEN pointerTo(parseAction(str)) ELSE Ok(<<>>)

\* parseProgram, "Parse rules"
parseRules(prog) == IF prog # <<>> THEN pointerTo(parseRule(prog)) ELSE Ok(<<>>)

\* parseProgram that rejects a text with no BEGIN, no END and no rule
programOfNonEmpty(begin, end, rules) ==
    IF ~begin.ok THEN begin
    ELSE IF ~end.ok THEN end
    ELSE IF ~rules.ok THEN rules
    ELSE IF begin.val = <<>> /\ end.val = <<>> /\ rules.val = <<>> THEN Err("empty program")
    ELSE Ok([Begin |-> begin.val, Rules |-> rules.val, End |-> end.val])

\* parseProgram: the Program, or the first error in the order BEGIN, END, rule
programOf(begin, end, rules) ==
    IF ~begin.ok THEN begin
    ELSE IF ~end.ok THEN end
    ELSE IF ~rules.ok THEN rules
    ELSE Ok([Begin |-> begin.val, Rules |-> rules.val, End |-> end.val])

\* an END block that is dropped when it cannot be parsed
droppedOnError(res) == IF res.ok THEN res ELSE Ok(<<>>)

\* parseProgram that drops an END block it cannot parse
parseProgramLenientEnd(text) ==
    LET prog0 == TrimSpace(text)
        hasBegin == HasPrefix(prog0, kwBEGIN)
        endIdx == Index(prog0, <<"}">>)
        prog1 == IF hasBegin THEN TrimSpace(SliceFrom(prog0, endIdx + 1)) ELSE prog0
        idx == Index(prog1, kwEND)
        prog2 == IF idx >= 0 THEN TrimSpace(Slice(prog1, 0, idx)) ELSE prog1
    IN  IF hasBegin /\ endIdx = -1 THEN Err("missing closing brace for BEGIN")
        ELSE programOf(parseBlock(hasBegin, Slice(prog0, 5, endIdx + 1)),
                       droppedOnError(parseBlock(idx >= 0, SliceFrom(prog1, idx + 3))),
                       parseRules(prog2))

\* the last occurrence of sep in s, -1 when there is none
LastIndex(s, sep) ==
    LET at == {i \in 0..(Len(s) - Len(sep)) : Slice(s, i, i + Len(sep)) = sep}
    IN  IF at = {} THEN -1 ELSE CHOOSE i \in at : \A j \in at : j <= i

\* parseProgram that splits the text at the last END instead of the first
parseProgramLastEnd(text) ==
    LET prog0 == TrimSpace(text)
        hasBegin == HasPrefix(prog0, kwBEGIN)
        endIdx == Index(prog0, <<"}">>)
        prog1 == IF hasBegin THEN TrimSpace(SliceFrom(prog0, endIdx + 1)) ELSE prog0
        idx == LastIndex(prog1, kwEND)
        prog2 == IF idx >= 0 THEN TrimSpace(Slice(prog1, 0, idx)) ELSE prog1
    IN  IF hasBegin /\ endIdx = -1 THEN Err("missing closing brace for BEGIN")
        ELSE programOf(parseBlock(hasBegin, Slice(prog0, 5, endIdx + 1)),
                       parseBlock(idx >= 0, SliceFrom(prog1, idx + 3)),
                       parseRules(prog2))

\* parseProgram
parseProgram(text) ==
    LET prog0 == TrimSpace(text)
        hasBegin == HasPrefix(prog0, kwBEGIN)
        endIdx == Index(prog0, <<"}">>)
        prog1 == IF hasBegin THEN TrimSpace(SliceFrom(prog0, endIdx + 1)) ELSE prog0
        idx == Index(prog1, kwEND)
        prog2 == IF idx >= 0 THEN TrimSpace(Slice(prog1, 0, idx)) ELSE prog1
    IN  IF hasBegin /\ endIdx = -1 THEN Err("missing closing brace for BEGIN")
        ELSE programOf(parseBlock(hasBegin, Slice(prog0, 5, endIdx + 1)),
                       parseBlock(idx >= 0, SliceFrom(prog1, idx + 3)),
                       parseRules(prog2))

(* ------------------------------ evaluation ----------------------------- *)
\* vars[name] of a Go map: a missing key reads as 0
MapGet(m, name) == IF name \in DOMAIN m THEN m[name] ELSE 0

\* vars[name] = value
MapPut(m, name, value) == [k \in (DOMAIN m) \cup {name} |-> IF k = name THEN value ELSE m[k]]

\* FieldExpression.Evaluate
FieldExpressionEvaluate(e, c) ==
    IF e.FieldNum = 0 THEN 0
    ELSE IF e.FieldNum > 0 /\ e.FieldNum <= Len(c.Fields) THEN ParseFloat(c.Fields[e.FieldNum])
    ELSE 0

Abs(n) == IF n < 0 THEN 0 - n ELSE n

RECURSIVE Gcd(_, _)
Gcd(a, b) == IF b = 0 THEN a ELSE Gcd(b, a % b)

\* the fraction n/d, d # 0, in lowest terms with a positive denominator
Fraction(n, d) ==
    LET g == Gcd(Abs(n), Abs(d))
    IN  [num |-> (IF d < 0 THEN 0 - n ELSE n) \div g, den |-> Abs(d) \div g]

\* the float64 n as the result of a division
Whole(n) == [num |-> n, den |-> 1]

\* left / right of float64 for a right operand other than 0, as the exact
\* quotient (the rounding of float64 to 53 bits is left out)
Quotient(left, right) == Fraction(left, right)

\* left / 0 of float64: an infinity with the sign of left, NaN for 0 / 0
QuotientByZero(left) ==
    [num |-> IF left > 0 THEN 1 ELSE IF left < 0 THEN 0 - 1 ELSE 0, den |-> 0]

\* BinaryExpression.Evaluate without the test of the divisor: float64
\* division by zero gives an infinity, or NaN for 0/0
BinaryOpUnguarded(op, left, right) ==
    CASE op = "+" -> left + right
      [] op = "-" -> left - right
      [] op = "*" -> left * right
      [] op = "/" -> IF right # 0 THEN Quotient(left, right) ELSE QuotientByZero(left)
      [] OTHER -> 0

\* BinaryExpression.Evaluate: the switch on Op.  A sum, difference or product
\* is an integer; the result of a division is a fraction
BinaryOp(op, left, right) ==
    CASE op = "+" -> left + right
      [] op = "-" -> left - right
      [] op = "*" -> left * right
      [] op = "/" -> IF right # 0 THEN Quotient(left, right) ELSE Whole(0)
      [] OTHER -> 0

\* Expression.Evaluate
RECURSIVE Evaluate(_, _, _)
Evaluate(e, c, m) ==
    CASE e.kind = "field" -> FieldExpressionEvaluate(e, c)
      [] e.kind = "variable" -> MapGet(m, e.Name)
      [] e.kind = "binary" -> BinaryOp(e.Op, Evaluate(e.Left, c, m), Evaluate(e.Right, c, m))

\* FieldRef.GetValue
GetValue(f, c, m) ==
    IF f.Var # <<>> THEN FormatFloat(MapGet(m, f.Var))
    ELSE IF f.Field = 0 THEN c.Line
    ELSE IF f.Field > 0 /\ f.Field <= Len(c.Fields) THEN c.Fields[f.Field]
    ELSE <<>>

\* PrintStatement.Execute that prints the first field for an empty list
PrintLineFirstField(s, c, m) ==
    IF Len(s.Fields) = 0 THEN (IF Len(c.Fields) > 0 THEN c.Fields[1] ELSE <<>>)
    ELSE Join([i \in 1..Len(s.Fields) |-> GetValue(s.Fields[i], c, m)], <<" ">>)

\* PrintStatement.Execute: the line it writes to standard output
PrintLine(s, c, m) ==
    IF Len(s.Fields) = 0 THEN c.Line
    ELSE Join([i \in 1..Len(s.Fields) |-> GetValue(s.Fields[i], c, m)], <<" ">>)

\* Statement.Execute: the map and the lines written after the statement
StatementExecute(s, c, st) ==
    IF s.kind = "print"
    THEN [m |-> st.m, printed |-> Append(st.printed, PrintLine(s, c, st.m))]
    ELSE [m |-> MapPut(st.m, s.Variable, Evaluate(s.Expr, c, st.m)), printed |-> st.printed]

RECURSIVE ExecuteStatements(_, _, _)
ExecuteStatements(stmts, c, st) ==
    IF stmts = <<>> THEN st
    ELSE ExecuteStatements(Tail(stmts), c, StatementExecute(Head(stmts), c, st))

\* Action.Execute: the action with its Variables after the call, and the
\* lines written
executed(a, st) ==
    [action |-> [Statements |-> a.Statements, Variables |-> [isNil |-> FALSE, m |-> st.m]],
     printed |-> st.printed]

\* Action.Execute
ActionExecute(a, c) ==
    executed(a, ExecuteStatements(a.Statements, c, [m |-> a.Variables.m, printed |-> <<>>]))

\* RegexPattern.Match anchored at the start of the line
RegexMatchAnchored(p, c) == HasPrefix(c.Line, p.Regex)

\* RegexPattern.Match of a literal pattern: a substring search
RegexMatch(p, c) == Contains(c.Line, p.Regex)

\* LinePattern.Match from the line on
LineMatchFrom(p, c) == c.NR >= p.LineNumber

\* LinePattern.Match
LineMatch(p, c) == c.NR = p.LineNumber

\* Pattern.Match that holds on every line
MatchAlways(p, c) == TRUE

\* Pattern.Match; parseRule never leaves Rule.Pattern nil
Match(p, c) ==
    CASE p.kind = "always" -> TRUE
      [] p.kind = "regex" -> RegexMatch(p, c)
      [] p.kind = "line" -> LineMatch(p, c)

\* splitFields without the special case of the single space
splitFieldsLiteral(line, sep) == Split(line, sep)

\* splitFields
splitFields(line, sep) == IF sep = <<" ">> THEN Fields(line) ELSE Split(line, sep)

\* processInput's rule loop after a rule whose pattern matched: the rules
\* after their actions ran, the lines written, that a pattern matched
ruleExecuted(rule, res, rest) ==
    [rules |-> <<[Pattern |-> rule.Pattern, Action |-> res.action]>> \o rest.rules,
     printed |-> res.printed \o rest.printed,
     matched |-> TRUE]

\* the same for a rule whose pattern did not match
ruleSkipped(rule, rest) ==
    [rules |-> <<rule>> \o rest.rules, printed |-> rest.printed, matched |-> rest.matched]

\* the rule loop of processInput for one line
RECURSIVE ExecuteRules(_, _)
ExecuteRules(rules, c) ==
    IF rules = <<>> THEN [rules |-> <<>>, printed |-> <<>>, matched |-> FALSE]
    ELSE IF Match(Head(rules).Pattern, c)
    THEN ruleExecuted(Head(rules), ActionExecute(Head(rules).Action, c), ExecuteRules(Tail(rules), c))
    ELSE ruleSkipped(Head(rules), ExecuteRules(Tail(rules), c))

(* ------------------------------ modelled inputs ------------------------ *)
sp == <<" ">>

lb == <<"{">>

rb == <<"}">>

\* { print }
ProgPrint == lb \o sp \o kwPrint \o sp \o rb

\* { print
ProgPrintOpen == lb \o sp \o kwPrint

\* { sum+=$1 }
ProgSumRule == <<"{", " ", "s", "u", "m", "+", "=", "$", "1", " ", "}">>

\* { sum+=$1 } END { print sum }
ProgSum == ProgSumRule \o sp \o kwEND \o sp \o lb \o sp \o kwPrint \o <<" ", "s", "u", "m", " ", "}">>

\* /abc/
ProgAbc == <<"/", "a", "b", "c", "/">>

\* NR==k
ProgLine(k) == kwNR \o FormatNat(k)

\* { print NR }
ProgPrintNR == lb \o sp \o kwPrint \o <<" ", "N", "R", " ", "}">>

\* { print NF }
ProgPrintNF == lb \o sp \o kwPrint \o <<" ", "N", "F", " ", "}">>

\* { print { }
ProgPrintBrace == lb \o sp \o kwPrint \o sp \o lb \o sp \o rb

\* { print $2, $1 }
ProgSwap == lb \o sp \o kwPrint \o <<" ", "$", "2", ",", " ", "$", "1", " ", "}">>

\* BEGIN { print } { print } END { print }
ProgAll == kwBEGIN \o sp \o ProgPrint \o sp \o ProgPrint \o sp \o kwEND \o sp \o ProgPrint

\* BEGIN { print } { print } END { print
ProgBadEnd == kwBEGIN \o sp \o ProgPrint \o sp \o ProgPrint \o sp \o kwEND \o sp \o ProgPrintOpen

\* BEGIN { print } { print
ProgBadRule == kwBEGIN \o sp \o ProgPrint \o sp \o ProgPrintOpen

\* BEGIN { foo } { print } END { print }
ProgBadBegin ==
    kwBEGIN \o <<" ", "{", " ", "f", "o", "o", " ", "}", " ">> \o ProgPrint \o sp \o kwEND \o sp \o ProgPrint

\* BEGIN { print
ProgOpenBegin == kwBEGIN \o sp \o ProgPrintOpen

\* /abc/ { print
ProgAbcOpen == ProgAbc \o sp \o ProgPrintOpen

\* { sum+=$1
ProgSumOpen == <<"{", " ", "s", "u", "m", "+", "=", "$", "1">>

\* { print } END { print
ProgEndOpen == ProgPrint \o sp \o kwEND \o sp \o ProgPrintOpen

\* /(/
ProgBadRegex == <<"/", "(", "/">>

\* /abc
ProgOpenRegex == <<"/", "a", "b", "c">>

\* NR==x
ProgBadLine == kwNR \o <<"x">>

\* { print $x }
ProgBadField == lb \o sp \o kwPrint \o <<" ", "$", "x", " ", "}">>

\* { s+=$k }
ProgAcc(k) == <<"{", " ", "s", "+", "=", "$">> \o FormatNat(k) \o <<" ", "}">>

\* NR==2 { s+=$1 }
ProgLineAcc == ProgLine(2) \o sp \o ProgAcc(1)

\* /x/ { s+=$1 }
ProgXAcc == <<"/", "x", "/", " ">> \o ProgAcc(1)

\* the largest field index of the accumulate programs
MaxField == 2

\* the programs with a rule `pattern { v+=$k }`: the variable, the field
\* index and the pattern of each
AccumulatePrograms ==
    {[prog |-> ProgAcc(k), v |-> <<"s">>, k |-> k, pattern |-> "always"] : k \in 0..MaxField}
        \cup {[prog |-> ProgSum, v |-> <<"s", "u", "m">>, k |-> 1, pattern |-> "always"],
              [prog |-> ProgLineAcc, v |-> <<"s">>, k |-> 1, pattern |-> "NR==2"],
              [prog |-> ProgXAcc, v |-> <<"s">>, k |-> 1, pattern |-> "/x/"]}

\* { print $1; print $2 }
ProgTwoPrints ==
    lb \o sp \o kwPrint \o <<" ", "$", "1", ";", " ">> \o kwPrint \o <<" ", "$", "2", " ", "}">>

\* { sum+=$1; n+=$2 }
ProgTwoSums ==
    <<"{", " ", "s", "u", "m", "+", "=", "$", "1", ";", " ", "n", "+", "=", "$", "2", " ", "}">>

\* { print; print }
ProgPrintTwice == lb \o sp \o kwPrint \o <<";", " ">> \o kwPrint \o sp \o rb

\* the programs with two statements in the action body
MultiStatementPrograms == {ProgTwoPrints, ProgTwoSums, ProgPrintTwice}

\* the empty program
ProgEmpty == <<>>

\* a program of blanks
ProgBlank == <<" ", "\t", " ">>

\* BEGIN { print }
ProgBeginOnly == kwBEGIN \o sp \o ProgPrint

\* END { print }
ProgEndOnly == kwEND \o sp \o ProgPrint

\* the programs with no BEGIN, no END and no rule text
EmptyPrograms == {ProgEmpty, ProgBlank}

\* the programs whose action body has a "{" that no "}" follows
UnterminatedPrograms ==
    {ProgPrintOpen, ProgAbcOpen, ProgSumOpen, ProgOpenBegin, ProgEndOpen, ProgBadRule, ProgBadEnd}

\* the programs with a syntax error in the BEGIN, the rule or the END part
MalformedPrograms ==
    UnterminatedPrograms \cup {ProgBadBegin, ProgBadRegex, ProgOpenRegex, ProgBadLine, ProgBadField}

WellFormedPrograms ==
    {ProgPrint, ProgSum, ProgAbc, ProgPrintNR, ProgPrintNF, ProgPrintBrace, ProgSwap, ProgAll,
     ProgBeginOnly, ProgEndOnly}
        \cup EmptyPrograms
        \cup {acc.prog : acc \in AccumulatePrograms}
        \cup {ProgLine(k) : k \in 0..(MaxLines + 1)}

Programs == WellFormedPrograms \cup MalformedPrograms \cup MultiStatementPrograms

\* the values of the -F flag
Separators == {<<" ">>, <<",">>}

Lines ==
    { <<"3">>,
      <<"4", " ", "x">>,
      <<"a", "b", "c">>,
      <<"a", ",", ",", "b">>,
      <<"a", " ", " ", " ", "b", " ", " ", "c">>,
      <<"x", ",", "a", "b", "c">>,
      <<"a", "\t", "b">>,
      <<>> }

RECURSIVE SeqsUpTo(_, _)
SeqsUpTo(S, n) ==
    IF n = 0 THEN {<<>>}
    ELSE LET shorter == SeqsUpTo(S, n - 1)
         IN  shorter \cup {Append(q, x) : q \in {r \in shorter : Len(r) = n - 1}, x \in S}

\* an input stream: its lines, and whether the scanner reports an error
\* after them; a file argument may also not exist
Stream(lines, fails) == [exists |-> TRUE, lines |-> lines, fails |-> fails]

MissingFile == [exists |-> FALSE, lines |-> <<>>, fails |-> FALSE]

StdinStreams == {Stream(l, FALSE) : l \in SeqsUpTo(Lines, MaxLines)}

FileStreams ==
    { MissingFile,
      Stream(<<>>, FALSE),
      Stream(<< <<"a", "b", "c">> >>, TRUE),
      Stream(<< <<"3">>, <<"a", "b", "c">> >>, FALSE),
      Stream(<< <<"4", " ", "x">>, <<"x", ",", "a", "b", "c">> >>, FALSE) }

FileLists == {fl \in SeqsUpTo(FileStreams, MaxFiles) : fl # <<>>}

NoStream == Stream(<<>>, FALSE)

(* ------------------------------ state ---------------------------------- *)
VARIABLES
    opts,      \* the Options of the command (awk: FieldSeparator and Program)
    files,     \* the file arguments of the command
    stdin,     \* the standard input stream
    run,       \* index of the current iteration of RunE's loop over the files
    pc,        \* position in the command: start, begin, scan, end, loop, done, failed
    program,   \* the Program of the current processInput call
    ctx,       \* the Context of the current processInput call
    pos,       \* lines the scanner has delivered in the current call
    out,       \* per processInput call, the lines printed (fmt.Println calls)
    hist,      \* per processInput call, the actions executed (observation only)
    err,       \* the error the command returned, "nil" when none
    stdout,    \* standard output: the lines it takes before every write to it
               \* fails, the lines it holds, the writes it refused
    dest,      \* mv: the destination argument
    isDestDir, \* mv: moveFiles' local of that name
    fsys       \* mv, rm: the file system, a node for every path

vars ==
    <<opts, files, stdin, run, pc, program, ctx, pos, out, hist, err, stdout, dest, isDestDir, fsys>>

\* the variables of the file commands, which awk and sed leave alone
fsVars == <<dest, isDestDir, fsys>>

\* the reader of the current processInput call
Reader == IF files = <<>> THEN stdin ELSE files[run]

NoProgram == [Begin |-> <<>>, Rules |-> <<>>, End |-> <<>>]

\* no processInput call has built a Context yet
NoContext == [NR |-> 0, NF |-> 0, Fields |-> <<>>, Line |-> <<>>, FS |-> <<>>]

\* a Context that outlives the processInput call
NewContextKept(fs) == [ctx EXCEPT !.FS = fs]

\* the Context processInput builds
NewContext(fs) == [NR |-> 0, NF |-> 0, Fields |-> <<>>, Line |-> <<>>, FS |-> fs]

Event(ev, c, matched) ==
    [ev |-> ev, NR |-> c.NR, NF |-> c.NF, Fields |-> c.Fields, Line |-> c.Line, matched |-> matched]

Log(ev, c, matched) == [hist EXCEPT ![run] = Append(@, Event(ev, c, matched))]

Write(printed) == [out EXCEPT ![run] = @ \o printed]

\* a standard output that takes every line
NoLimit == -1

\* standard output is a terminal or a file, or a pipe whose reader goes
\* away after one line
StdoutLimits == {NoLimit, 1}

NewStdout(limit) == [limit |-> limit, lines |-> <<>>, refused |-> 0]

\* the lines of printed that standard output takes
Accepted(printed) ==
    IF stdout.limit = NoLimit \/ Len(stdout.lines) + Len(printed) <= stdout.limit
    THEN printed
    ELSE SubSeq(printed, 1, stdout.limit - Len(stdout.lines))

\* fmt.Println on standard output, once per printed line: a line is added,
\* or the write fails and Println returns the error
Emit(printed) ==
    [stdout EXCEPT !.lines = @ \o Accepted(printed),
                   !.refused = @ + Len(printed) - Len(Accepted(printed))]

Init ==
    /\ opts \in [FieldSeparator : Separators, Program : Programs]
    /\ \/ files = <<>> /\ stdin \in StdinStreams
       \/ files \in FileLists /\ stdin = NoStream
    /\ run = 1
    /\ pc = "start"
    /\ program = NoProgram
    /\ ctx = NoContext
    /\ pos = 0
    /\ out = <<>>
    /\ hist = <<>>
    /\ err = "nil"
    /\ stdout \in {NewStdout(limit) : limit \in StdoutLimits}
    /\ dest = <<>>
    /\ isDestDir = FALSE
    /\ fsys = <<>>

\* one iteration of RunE's loop up to the end of parsing: processFile opens
\* the file, processInput parses the program and builds the Context
Start ==
    /\ pc = "start"
    /\ out' = Append(out, <<>>)
    /\ hist' = Append(hist, <<>>)
    /\ pos' = 0
    /\ \E parsed \in {parseProgram(opts.Program)} :
           IF ~Reader.exists
           THEN /\ pc' = "failed"
                /\ err' = "cannot open"
                /\ UNCHANGED <<program, ctx>>
           ELSE IF ~parsed.ok
           THEN /\ pc' = "failed"
                /\ err' = parsed.err
                /\ UNCHANGED <<program, ctx>>
           ELSE /\ pc' = "begin"
                /\ program' = parsed.val
                /\ ctx' = NewContext(opts.FieldSeparator)
                /\ err' = "nil"
    /\ UNCHANGED <<opts, files, stdin, run, stdout, fsVars>>

\* processInput that goes to the scanner loop without executing BEGIN
ExecBeginSkipped ==
    /\ pc = "begin"
    /\ pc' = "scan"
    /\ UNCHANGED <<opts, files, stdin, run, ctx, pos, err, program, out, hist, stdout, fsVars>>

ExecBegin ==
    /\ pc = "begin"
    /\ pc' = "scan"
    /\ IF program.Begin # <<>>
       THEN \E res \in {ActionExecute(program.Begin[1], ctx)} :
                /\ program' = [program EXCEPT !.Begin = <<res.action>>]
                /\ out' = Write(res.printed)
                /\ stdout' = Emit(res.printed)
                /\ hist' = Log("begin", ctx, TRUE)
       ELSE UNCHANGED <<program, out, stdout, hist>>
    /\ UNCHANGED <<opts, files, stdin, run, ctx, pos, err, fsVars>>

\* processInput: one iteration of the scanner loop
ScanLine ==
    /\ pc = "scan"
    /\ pos < Len(Reader.lines)
    /\ \E fields \in {splitFields(Reader.lines[pos + 1], ctx.FS)} :
           /\ ctx' = [NR |-> ctx.NR + 1, NF |-> Len(fields), Fields |-> fields,
                      Line |-> Reader.lines[pos + 1], FS |-> ctx.FS]
           /\ \E res \in {ExecuteRules(program.Rules, ctx')} :
                  /\ program' = [program EXCEPT !.Rules = res.rules]
                  /\ out' = Write(res.printed)
                  /\ stdout' = Emit(res.printed)
                  /\ hist' = Log("line", ctx', res.matched)
    /\ pos' = pos + 1
    /\ UNCHANGED <<opts, files, stdin, run, pc, err, fsVars>>

\* processInput that goes on to END without checking scanner.Err()
ScanEndIgnoringError ==
    /\ pc = "scan"
    /\ pos = Len(Reader.lines)
    /\ pc' = "end"
    /\ UNCHANGED <<opts, files, stdin, run, program, ctx, pos, out, hist, err, stdout, fsVars>>

\* processInput: scanner.Scan() returns false; scanner.Err() is checked
ScanEnd ==
    /\ pc = "scan"
    /\ pos = Len(Reader.lines)
    /\ IF Reader.fails
       THEN pc' = "failed" /\ err' = "read error"
       ELSE pc' = "end" /\ err' = err
    /\ UNCHANGED <<opts, files, stdin, run, program, ctx, pos, out, hist, stdout, fsVars>>

\* processInput: Execute END, and the return to RunE's loop
ExecEnd ==
    /\ pc = "end"
    /\ IF program.End # <<>>
       THEN \E res \in {ActionExecute(program.End[1], ctx)} :
                /\ program' = [program EXCEPT !.End = <<res.action>>]
                /\ out' = Write(res.printed)
                /\ stdout' = Emit(res.printed)
                /\ hist' = Log("end", ctx, TRUE)
       ELSE UNCHANGED <<program, out, stdout, hist>>
    /\ IF run < Len(files)
       THEN pc' = "start" /\ run' = run + 1
       ELSE pc' = "done" /\ run' = run
    /\ UNCHANGED <<opts, files, stdin, ctx, pos, err, fsVars>>

Next == Start \/ ExecBegin \/ ScanLine \/ ScanEnd \/ ExecEnd

Spec == Init /\ [][Next]_vars

(* ------------------------------ observations --------------------------- *)
\* the reader of the r-th processInput call
ReaderOf(r) == IF files = <<>> THEN stdin ELSE files[r]

\* the r-th processInput call has returned nil
Returned(r) == r < run \/ pc = "done"

\* lines the scanner has delivered to the r-th processInput call
Delivered(r) == IF r < run THEN Len(ReaderOf(r).lines) ELSE pos

\* the lines delivered to the r-th call
DeliveredLines(r) == SubSeq(ReaderOf(r).lines, 1, Delivered(r))

\* the subsequence of lines at the indices in K
RECURSIVE SelectLines(_, _)
SelectLines(lines, K) ==
    IF lines = <<>> THEN <<>>
    ELSE SelectLines(SubSeq(lines, 1, Len(lines) - 1), K)
             \o (IF Len(lines) \in K THEN <<lines[Len(lines)]>> ELSE <<>>)

ContainsAbc(line) ==
    \E i \in 1..(Len(line) - 2) : line[i] = "a" /\ line[i + 1] = "b" /\ line[i + 2] = "c"

TheInput347 == << <<"3">>, <<"4", " ", "x">>, <<"a", "b", "c">> >>

(* ------------------------------ claims --------------------------------- *)
\* C1: within one run the value the rule action accumulated is the value END
\* reads: when `{ sum+=$1 } END { print sum }` has run, END has printed one
\* line, the accumulated sum, and on the lines "3", "4 x", "abc" with the
\* default separator that line is 7.
C1_EndPrintsAccumulatedSum ==
    (opts.Program = ProgSum /\ pc = "done") =>
        /\ out[run] = <<FormatFloat(MapGet(program.Rules[1].Action.Variables.m, <<"s", "u", "m">>))>>
        /\ (opts.FieldSeparator = <<" ">> /\ Reader.lines = TheInput347) => out[run] = << <<"7">> >>

\* C2: for the program `{ print }` the output of a run is the sequence of
\* the input lines read so far: same lines, same order, same count.
C2_PrintCopiesInput ==
    opts.Program = ProgPrint => \A r \in 1..Len(out) : out[r] = DeliveredLines(r)

C2_Witness ==
    /\ opts.Program = ProgPrint
    /\ pc = "done"
    /\ Len(out[run]) >= 2
    /\ out[run][1] # out[run][2]
    /\ out[run] = Reader.lines

\* C3: for the rule `/abc/` with the default action, the output of a run is
\* the input lines read so far that contain abc, in input order.
C3_RegexSelectsSubstringLines ==
    opts.Program = ProgAbc =>
        \A r \in 1..Len(out) :
            out[r] = SelectLines(DeliveredLines(r),
                                {i \in 1..Delivered(r) : ContainsAbc(ReaderOf(r).lines[i])})

C3_Witness ==
    /\ opts.Program = ProgAbc
    /\ pc = "done"
    /\ Reader.lines = << <<"3">>, <<"x", ",", "a", "b", "c">>, <<"a", "b", "c">> >>
    /\ out[run] = << <<"x", ",", "a", "b", "c">>, <<"a", "b", "c">> >>

\* C4: for the rule `NR==k` the lines of a run on which the pattern matched
\* are the k-th alone once it has been read, and none when k = 0 or k
\* exceeds the number of lines.
C4_LineNumberMatchesOnce ==
    \A k \in 0..(MaxLines + 1) :
        opts.Program = ProgLine(k) =>
            \A r \in 1..Len(hist) :
                /\ Len(hist[r]) = Delivered(r)
                /\ {i \in 1..Len(hist[r]) : hist[r][i].matched} = {k} \cap (1..Delivered(r))
                /\ out[r] = SelectLines(DeliveredLines(r), {k})

C4_Witness ==
    /\ opts.Program = ProgLine(2)
    /\ pc = "done"
    /\ Len(Reader.lines) = 3
    /\ {i \in 1..Len(hist[run]) : hist[run][i].matched} = {2}
    /\ out[run] = <<Reader.lines[2]>>

\* text has a "{" that no "}" follows
HasUnterminatedBrace(text) ==
    \E i \in 1..Len(text) : text[i] = "{" /\ \A j \in (i + 1)..Len(text) : text[j] # "}"

ParseErrors ==
    { "missing closing brace for BEGIN", "action must be enclosed in braces",
      "unsupported statement", "invalid field", "invalid regex",
      "missing closing / for pattern", "invalid line number" }

\* no processInput call of the invocation has executed an action or written
\* a line
NothingRan == \A r \in 1..Len(out) : out[r] = <<>> /\ hist[r] = <<>>

\* C5: a program with a syntax error in its BEGIN, rule or END part never
\* reaches BEGIN or the scanner loop and writes no line: the call fails in
\* parsing, also when only the END block is malformed.
C5_ParseErrorRunsNothing ==
    opts.Program \in MalformedPrograms =>
        /\ pc \in {"start", "failed"}
        /\ NothingRan
        /\ (pc = "failed" /\ Reader.exists) => err \in ParseErrors

C5_Witness ==
    /\ opts.Program = ProgBadEnd
    /\ pc = "failed"
    /\ err = "action must be enclosed in braces"
    /\ Len(Reader.lines) >= 2
    /\ NothingRan

\* the r-th processInput call has parsed its program and executed BEGIN
PastBegin(r) ==
    \/ r < run
    \/ pc \in {"scan", "end", "done"}
    \/ pc = "failed" /\ err = "read error"

\* C6: in a run that parsed, BEGIN (if present) is the first thing executed,
\* once, with record number 0 and no fields; then the lines read so far,
\* each once and in input order; END (if present) is executed once, last,
\* and only in a run whose input ended without an error.
C6_BeginLinesEndInOrder ==
    \A r \in 1..Len(hist) :
        LET h == hist[r]
            b == IF program.Begin # <<>> THEN 1 ELSE 0
            e == IF program.End # <<>> /\ Returned(r) THEN 1 ELSE 0
            n == Delivered(r)
        IN  IF ~PastBegin(r) THEN h = <<>>
            ELSE /\ Len(h) = b + n + e
                 /\ b = 1 => /\ h[1].ev = "begin"
                             /\ h[1].NR = 0
                             /\ h[1].NF = 0
                             /\ h[1].Fields = <<>>
                 /\ \A i \in 1..n : /\ h[b + i].ev = "line"
                                    /\ h[b + i].NR = i
                                    /\ h[b + i].Line = ReaderOf(r).lines[i]
                 /\ e = 1 => /\ h[Len(h)].ev = "end"
                             /\ n = Len(ReaderOf(r).lines)
                             /\ ~ReaderOf(r).fails

C6_Witness ==
    /\ opts.Program = ProgAll
    /\ pc = "done"
    /\ Len(Reader.lines) >= 2
    /\ Len(hist[run]) = Len(Reader.lines) + 2
    /\ hist[run][1].ev = "begin"
    /\ hist[run][Len(hist[run])].ev = "end"

C8_PrintResolvesSpecialVariables ==
    \A r \in 1..Len(out) :
        /\ opts.Program = ProgPrintNR =>
               out[r] = [i \in 1..Delivered(r) |-> FormatNat(i)]
        /\ opts.Program = ProgPrintNF =>
               out[r] = [i \in 1..Delivered(r) |-> FormatNat(hist[r][i].NF)]

\* the positions of line where a run of non-blank characters starts
RunStarts(line) == {i \in 1..Len(line) : ~IsSpace(line[i]) /\ (i = 1 \/ IsSpace(line[i - 1]))}

\* the positions of line where a run of non-blank characters ends
RunEnds(line) == {i \in 1..Len(line) : ~IsSpace(line[i]) /\ (i = Len(line) \/ IsSpace(line[i + 1]))}

\* the k-th smallest element of the set of numbers S
Kth(S, k) == CHOOSE x \in S : Cardinality({y \in S : y < x}) = k - 1

\* the line sep occurs in token
Occurs(sep, token) == \E i \in 0..(Len(token) - Len(sep)) : SubSeq(token, i + 1, i + Len(sep)) = sep

\* a line has been read and split in the current call
LineSplit == pc \in {"scan", "end", "done"} /\ pos > 0

\* C9: with the single-space separator the fields of the current line are
\* its maximal runs of non-blank characters, so none is empty ("a   b  c"
\* gives a, b, c); with any other separator the fields joined by the
\* separator give back the line and no field contains the separator, so
\* empty fields are kept ("," on "a,,b" gives a, "", b).
C9_SplitFieldsBySeparator ==
    LineSplit =>
        /\ ctx.NF = Len(ctx.Fields)
        /\ ctx.FS = <<" ">> =>
               /\ Len(ctx.Fields) = Cardinality(RunStarts(ctx.Line))
               /\ \A k \in 1..Len(ctx.Fields) :
                      /\ ctx.Fields[k] # <<>>
                      /\ ctx.Fields[k] =
                             SubSeq(ctx.Line, Kth(RunStarts(ctx.Line), k), Kth(RunEnds(ctx.Line), k))
               /\ ctx.Line = <<"a", " ", " ", " ", "b", " ", " ", "c">> =>
                      ctx.Fields = << <<"a">>, <<"b">>, <<"c">> >>
        /\ ctx.FS # <<" ">> =>
               /\ Join(ctx.Fields, ctx.FS) = ctx.Line
               /\ Len(ctx.Fields) >= 1
               /\ \A k \in 1..Len(ctx.Fields) : ~Occurs(ctx.FS, ctx.Fields[k])
               /\ (ctx.Line = <<"a", ",", ",", "b">> /\ ctx.FS = <<",">>) =>
                      ctx.Fields = << <<"a">>, <<>>, <<"b">> >>

C9_Witness ==
    /\ LineSplit
    /\ ctx.FS = <<",">>
    /\ ctx.Line = <<"a", ",", ",", "b">>
    /\ ctx.Fields = << <<"a">>, <<>>, <<"b">> >>
    /\ ctx.NF = 3

\* every Action of the program has the nil Variables parsing left it with
NoVariables ==
    /\ \A i \in 1..Len(program.Begin) : program.Begin[i].Variables.isNil
    /\ \A i \in 1..Len(program.Rules) : program.Rules[i].Action.Variables.isNil
    /\ \A i \in 1..Len(program.End) : program.End[i].Variables.isNil

\* C10: every processInput call starts from record number 0, no fields and
\* no variables, and two calls of one invocation that read the same input
\* to its end write the same lines and execute the same actions.
C10_RunsAreIndependent ==
    /\ pc = "begin" => /\ ctx.NR = 0
                       /\ ctx.NF = 0
                       /\ ctx.Fields = <<>>
                       /\ ctx.Line = <<>>
                       /\ NoVariables
    /\ \A r1, r2 \in 1..Len(out) :
           (Returned(r1) /\ Returned(r2) /\ ReaderOf(r1) = ReaderOf(r2)) =>
               out[r1] = out[r2] /\ hist[r1] = hist[r2]

C10_Witness ==
    /\ Len(files) = 2
    /\ files[1] = files[2]
    /\ pc = "done"
    /\ opts.Program = ProgLine(2)
    /\ out[1] # <<>>
    /\ out[1] = out[2]

\* the calls of the invocation have matched no line and written nothing
NothingMatched ==
    \A r \in 1..Len(out) :
        /\ out[r] = <<>>
        /\ \A i \in 1..Len(hist[r]) : hist[r][i].ev = "line" /\ ~hist[r][i].matched

\* C11 as stated: a program with no BEGIN, no END and no rule text fails to
\* parse, so its run never gets past parsing; and a Program without a rule
\* has a BEGIN or an END action.
C11_EmptyProgramFails ==
    /\ opts.Program \in EmptyPrograms => pc \in {"start", "failed"}
    /\ (pc \in {"begin", "scan", "end", "done"} /\ program.Rules = <<>>) =>
           (program.Begin # <<>> \/ program.End # <<>>)

\* C11, amended: a program with no BEGIN, no END and no rule text parses
\* without error into a Program that holds no action; its run reads the
\* input to the end, matches no line and writes nothing.  Empty rule text
\* is accepted whether or not a BEGIN or an END block was found.
C11_EmptyProgramParses ==
    /\ opts.Program \in EmptyPrograms =>
           /\ pc = "failed" => err \in {"cannot open", "read error"}
           /\ program = NoProgram
           /\ NothingMatched
    /\ opts.Program \in {ProgBeginOnly, ProgEndOnly} =>
           /\ pc = "failed" => err \in {"cannot open", "read error"}
           /\ program.Rules = <<>>

C11_Witness ==
    /\ opts.Program = ProgBlank
    /\ pc = "done"
    /\ err = "nil"
    /\ program = NoProgram
    /\ Len(Reader.lines) >= 2
    /\ Len(hist[run]) = Len(Reader.lines)
    /\ out[run] = <<>>

\* the lines the calls of the invocation printed, in the order of the calls
RECURSIVE Flatten(_)
Flatten(seqs) == IF seqs = <<>> THEN <<>> ELSE Head(seqs) \o Flatten(Tail(seqs))

\* C12: a failed write of a print statement's output aborts the run at once
\* with an error: once standard output has refused a line the call has
\* failed with the write error, no second write was attempted (no later line
\* was processed, END was not executed), and the lines printed before the
\* failure are the lines standard output holds.
C12_WriteFailureAborts ==
    stdout.refused > 0 =>
        /\ pc = "failed"
        /\ err = "write error"
        /\ stdout.refused = 1
        /\ stdout.lines \o <<out[run][Len(out[run])]>> = Flatten(out)

(* ====================== pkg/sed: the stream editor ====================== *)
\* regexp.MatchString of a literal pattern: a substring search
MatchString(pattern, line) == Contains(line, pattern)

\* regexp.ReplaceAllString for the empty pattern, which matches before every
\* character and at the end
RECURSIVE ReplaceAllEmpty(_, _)
ReplaceAllEmpty(line, repl) ==
    IF line = <<>> THEN repl ELSE repl \o <<Head(line)>> \o ReplaceAllEmpty(Tail(line), repl)

\* regexp.ReplaceAllString of a literal pattern and a replacement without "$"
RECURSIVE ReplaceAllString(_, _, _)
ReplaceAllString(line, pattern, repl) ==
    IF pattern = <<>> THEN ReplaceAllEmpty(line, repl)
    ELSE IF Index(line, pattern) < 0 THEN line
    ELSE Slice(line, 0, Index(line, pattern)) \o repl
             \o ReplaceAllString(SliceFrom(line, Index(line, pattern) + Len(pattern)), pattern, repl)

\* what SedCommand.Execute returns: (output, skip, error)
Executed(output, skip) == [output |-> output, skip |-> skip, err |-> "nil"]

ExecuteFailed(e) == [output |-> <<>>, skip |-> FALSE, err |-> e]

\* SubstituteCommand.Execute
SubstituteExecute(c, line) ==
    IF c.Global THEN Executed(ReplaceAllString(line, c.Pattern, c.Replacement), FALSE)
    ELSE IF Index(line, c.Pattern) >= 0
    THEN Executed(Slice(line, 0, Index(line, c.Pattern)) \o c.Replacement
                      \o SliceFrom(line, Index(line, c.Pattern) + Len(c.Pattern)), FALSE)
    ELSE Executed(line, FALSE)

\* DeleteCommand.Execute that skips the line and every line after it
DeleteExecuteFrom(c, line, lineNum) ==
    IF c.hasPattern
    THEN (IF MatchString(c.Pattern, line) THEN Executed(<<>>, TRUE) ELSE Executed(line, FALSE))
    ELSE IF c.LineNumber > 0 /\ lineNum >= c.LineNumber THEN Executed(<<>>, TRUE)
    ELSE Executed(line, FALSE)

\* DeleteCommand.Execute
DeleteExecute(c, line, lineNum) ==
    IF c.hasPattern
    THEN (IF MatchString(c.Pattern, line) THEN Executed(<<>>, TRUE) ELSE Executed(line, FALSE))
    ELSE IF c.LineNumber > 0 /\ lineNum = c.LineNumber THEN Executed(<<>>, TRUE)
    ELSE Executed(line, FALSE)

\* PrintCommand.Execute
PrintExecute(c, line, lineNum) ==
    IF c.hasPattern
    THEN (IF MatchString(c.Pattern, line) THEN Executed(line, FALSE) ELSE Executed(<<>>, TRUE))
    ELSE IF c.LineNumber > 0
    THEN (IF lineNum = c.LineNumber THEN Executed(line, FALSE) ELSE Executed(<<>>, TRUE))
    ELSE Executed(line, FALSE)

\* parseSubstitute after the split by the delimiter
substituteOf(parts) ==
    IF Len(parts) < 2 THEN Err("invalid substitute command")
    ELSE IF ~RegexCompiles(parts[1]) THEN Err("invalid pattern")
    ELSE Ok([kind |-> "s", Pattern |-> parts[1], Replacement |-> parts[2],
             Global |-> Len(parts) > 2 /\ Contains(parts[3], <<"g">>)])

\* parseSubstitute
parseSubstitute(expr) ==
    IF Len(expr) = 1 THEN Err("invalid substitute command")
    ELSE substituteOf(Split(SliceFrom(expr, 2), <<expr[2]>>))

\* parseDelete and parsePrint after the suffix is cut off: a line number, or
\* a pattern between slashes; expr[1 : len(expr)-1] of the single "/" panics
parseAddress(kind, expr, num, invalid) ==
    IF num.ok THEN Ok([kind |-> kind, hasPattern |-> FALSE, Pattern |-> <<>>, LineNumber |-> num.val])
    ELSE IF HasPrefix(expr, <<"/">>) /\ HasSuffix(expr, <<"/">>)
    THEN IF Len(expr) < 2 THEN Err("panic: slice bounds out of range")
         ELSE IF ~RegexCompiles(Slice(expr, 1, Len(expr) - 1)) THEN Err("invalid pattern")
         ELSE Ok([kind |-> kind, hasPattern |-> TRUE,
                  Pattern |-> Slice(expr, 1, Len(expr) - 1), LineNumber |-> 0])
    ELSE Err(invalid)

\* strings.TrimSpace(strings.TrimSuffix(expr, suffix)) for a one-character suffix
CutSuffix(expr, suffix) ==
    TrimSpace(IF HasSuffix(expr, suffix) THEN Slice(expr, 0, Len(expr) - 1) ELSE expr)

\* parseDelete
parseDelete(expr) ==
    parseAddress("d", CutSuffix(expr, <<"d">>), Atoi(CutSuffix(expr, <<"d">>)), "invalid delete command")

\* parsePrint of package sed
sedParsePrint(expr) ==
    parseAddress("p", CutSuffix(expr, <<"p">>), Atoi(CutSuffix(expr, <<"p">>)), "invalid print command")

\* parseCommand after strings.TrimSpace
parseTrimmed(expr) ==
    IF HasPrefix(expr, <<"s">>) THEN parseSubstitute(expr)
    ELSE IF HasSuffix(expr, <<"d">>) THEN parseDelete(expr)
    ELSE IF HasSuffix(expr, <<"p">>) THEN sedParsePrint(expr)
    ELSE Err("unsupported command")

\* parseCommand
parseCommand(expr) == parseTrimmed(TrimSpace(expr))

\* SedCommand.Execute
Execute(cmd, line, lineNum) ==
    CASE cmd.kind = "s" -> SubstituteExecute(cmd, line)
      [] cmd.kind = "d" -> DeleteExecute(cmd, line, lineNum)
      [] cmd.kind = "p" -> PrintExecute(cmd, line, lineNum)

\* processLine after parseCommand
executeParsed(parsed, line, lineNum) ==
    IF parsed.ok THEN Execute(parsed.val, line, lineNum) ELSE ExecuteFailed(parsed.err)

\* processLine
processLine(line, lineNum, o) == executeParsed(parseCommand(o.Expression), line, lineNum)

\* /abc/p
SedPrintAbc == <<"/", "a", "b", "c", "/", "p">>

\* /abc/d
SedDeleteAbc == <<"/", "a", "b", "c", "/", "d">>

\* Np
SedPrintLine(n) == FormatNat(n) \o <<"p">>

\* Nd
SedDeleteLine(n) == FormatNat(n) \o <<"d">>

\* s/b/x/
SedSubstitute == <<"s", "/", "b", "/", "x", "/">>

\* s/b/x/g, with blanks around it
SedSubstituteAll == <<" ", "s", "/", "b", "/", "x", "/", "g", " ">>

\* the expressions parseCommand rejects: x, s, s/b, abcd, abcp, /(/d, /(/p, /d
SedMalformed ==
    { <<"x">>, <<"s">>, <<"s", "/", "b">>, <<"a", "b", "c", "d">>, <<"a", "b", "c", "p">>,
      <<"/", "(", "/", "d">>, <<"/", "(", "/", "p">>, <<"/", "d">> }

SedExpressions ==
    {SedPrintAbc, SedDeleteAbc, SedSubstitute, SedSubstituteAll, SedPrintLine(2)}
        \cup {SedDeleteLine(n) : n \in 0..(MaxLines + 1)}
        \cup SedMalformed

\* the errors of parseCommand
SedParseErrors ==
    { "unsupported command", "invalid substitute command", "invalid pattern",
      "invalid delete command", "invalid print command", "panic: slice bounds out of range" }

\* sed: the command line; the files are read as streams (no -i)
SedInit ==
    /\ opts \in [InPlace : {FALSE}, Quiet : BOOLEAN, Extended : {FALSE}, Expression : SedExpressions]
    /\ \/ files = <<>> /\ stdin \in StdinStreams
       \/ files \in FileLists /\ stdin = NoStream
    /\ run = 1
    /\ pc = "start"
    /\ program = NoProgram
    /\ ctx = NoContext
    /\ pos = 0
    /\ out = <<>>
    /\ hist = <<>>
    /\ err = "nil"
    /\ stdout = NewStdout(NoLimit)
    /\ dest = <<>>
    /\ isDestDir = FALSE
    /\ fsys = <<>>

\* one iteration of RunE's loop up to the scanner loop: processFile opens the
\* file, processInput starts with lineNum 0
SedOpen ==
    /\ pc = "start"
    /\ out' = Append(out, <<>>)
    /\ pos' = 0
    /\ IF Reader.exists
       THEN pc' = "scan" /\ err' = "nil"
       ELSE pc' = "failed" /\ err' = "cannot open"
    /\ UNCHANGED <<opts, files, stdin, run, program, ctx, hist, stdout, fsVars>>

\* processInput: one iteration of the scanner loop
SedLine ==
    /\ pc = "scan"
    /\ pos < Len(Reader.lines)
    /\ pos' = pos + 1
    /\ \E res \in {processLine(Reader.lines[pos + 1], pos + 1, opts)} :
           IF res.err # "nil"
           THEN /\ pc' = "failed"
                /\ err' = res.err
                /\ UNCHANGED <<out, stdout>>
           ELSE IF ~res.skip /\ ~opts.Quiet
           THEN /\ out' = Write(<<res.output>>)
                /\ stdout' = Emit(<<res.output>>)
                /\ UNCHANGED <<pc, err>>
           ELSE UNCHANGED <<pc, err, out, stdout>>
    /\ UNCHANGED <<opts, files, stdin, run, program, ctx, hist, fsVars>>

\* processInput: scanner.Scan() returns false and scanner.Err() is
\* returned; RunE goes to the next file or returns
SedEnd ==
    /\ pc = "scan"
    /\ pos = Len(Reader.lines)
    /\ IF Reader.fails
       THEN pc' = "failed" /\ err' = "read error" /\ run' = run
       ELSE IF run < Len(files)
       THEN pc' = "start" /\ err' = err /\ run' = run + 1
       ELSE pc' = "done" /\ err' = err /\ run' = run
    /\ UNCHANGED <<opts, files, stdin, program, ctx, pos, out, hist, stdout, fsVars>>

SedNext == SedOpen \/ SedLine \/ SedEnd

SedSpec == SedInit /\ [][SedNext]_vars

\* C13: with -n the command `/abc/p` prints exactly the lines read so far
\* that contain abc, each once and in input order, and no other line.
C13_QuietPrintSelectsMatching ==
    (opts.Quiet /\ opts.Expression = SedPrintAbc) =>
        \A r \in 1..Len(out) :
            out[r] = SelectLines(DeliveredLines(r),
                                {i \in 1..Delivered(r) : ContainsAbc(ReaderOf(r).lines[i])})

\* C14: without -n, the command `Nd` with N >= 1 prints the lines read so
\* far except the N-th (all of them while fewer than N lines were read), and
\* `/abc/d` prints the lines read so far that do not contain abc; the lines
\* that remain are unchanged and in input order.
C14_DeleteRemovesSelectedLines ==
    ~opts.Quiet =>
        \A r \in 1..Len(out) :
            /\ \A n \in 1..(MaxLines + 1) :
                   opts.Expression = SedDeleteLine(n) =>
                       out[r] = SelectLines(DeliveredLines(r), (1..Delivered(r)) \ {n})
            /\ opts.Expression = SedDeleteAbc =>
                   out[r] = SelectLines(DeliveredLines(r),
                                       {i \in 1..Delivered(r) : ~ContainsAbc(ReaderOf(r).lines[i])})

C14_Witness ==
    /\ ~opts.Quiet
    /\ opts.Expression = SedDeleteLine(2)
    /\ pc = "done"
    /\ Len(Reader.lines) = 3
    /\ Reader.lines[1] # Reader.lines[3]
    /\ out[run] = <<Reader.lines[1], Reader.lines[3]>>

(* ====================== the file system of pkg/mv and pkg/rm ============ *)
\* the names of directory entries
Names == {"a", "b", "d"}

\* the paths of the modelled file systems: the entries of the working
\* directory and the entries of its directory d
Paths == {<<n>> : n \in Names} \cup {<<"d", n>> : n \in Names}

Absent == [kind |-> "none", data |-> "", target |-> <<>>]

File(data) == [kind |-> "file", data |-> data, target |-> <<>>]

Dir == [kind |-> "dir", data |-> "", target |-> <<>>]

Link(target) == [kind |-> "link", data |-> "", target |-> target]

\* the directory entry at path p, Absent when there is none
Node(fs, p) == IF p \in DOMAIN fs THEN fs[p] ELSE Absent

\* os.Lstat that follows a symbolic link
LstatFollowing(fs, p) ==
    IF Node(fs, p).kind = "link" THEN Node(fs, Node(fs, p).target) ELSE Node(fs, p)

\* os.Lstat: the entry itself
Lstat(fs, p) == Node(fs, p)

\* os.Stat: the entry a symbolic link points to (the links of the modelled
\* file systems point to files and directories, not to links)
Stat(fs, p) == IF Node(fs, p).kind = "link" THEN Node(fs, Node(fs, p).target) ELSE Node(fs, p)

\* os.Stat returns no error
Exists(fs, p) == Stat(fs, p).kind # "none"

\* FileInfo.IsDir
IsDir(info) == info.kind = "dir"

\* filepath.Base of a clean, non-empty path
Base(p) == p[Len(p)]

\* filepath.Join(dir, name)
PathJoin(dir, name) == dir \o <<name>>

\* filepath.Dir
Parent(p) == SubSeq(p, 1, Len(p) - 1)

\* the directory that would hold the entry p exists
HasParent(fs, p) == Len(p) = 1 \/ IsDir(Stat(fs, Parent(p)))

\* q is p or lies below p
Below(p, q) == Len(q) >= Len(p) /\ SubSeq(q, 1, Len(p)) = p

\* what a file system call returns: the file system after it and the error
Done(fs) == [ok |-> TRUE, fs |-> fs, err |-> "nil"]

Failed(fs, e) == [ok |-> FALSE, fs |-> fs, err |-> e]

\* os.Rename of an entry that is no directory: it replaces a file at the
\* new path, and fails with a *LinkError when the new path is a directory
\* or has no parent directory
Rename(fs, src, dst) ==
    IF src = dst THEN Done(fs)
    ELSE IF IsDir(Node(fs, dst)) \/ ~HasParent(fs, dst) \/ dst \notin DOMAIN fs
    THEN Failed(fs, "LinkError")
    ELSE Done([fs EXCEPT ![dst] = fs[src], ![src] = Absent])

\* os.Remove of an entry that is no directory
Remove(fs, p) == Done([fs EXCEPT ![p] = Absent])

\* os.RemoveAll: the entry and everything below it
RemoveAll(fs, p) == Done([q \in DOMAIN fs |-> IF Below(p, q) THEN Absent ELSE fs[q]])

(* ====================== pkg/mv ========================================== *)
\* copyFile: os.OpenFile with O_CREATE|O_TRUNC fails on a directory and
\* without a parent directory; otherwise dest gets the content of src
copyFile(fs, src, dst) ==
    IF IsDir(Stat(fs, dst)) \/ ~HasParent(fs, dst) \/ dst \notin DOMAIN fs
    THEN Failed(fs, "failed to copy file")
    ELSE Done([fs EXCEPT ![dst] = File(Stat(fs, src).data)])

\* copyAndDelete of a source that is no directory: os.Remove after copyFile
removeCopied(copied, src) == IF copied.ok THEN Remove(copied.fs, src) ELSE copied

\* copyAndDelete of a source that is no directory
copyAndDelete(fs, src, dst) == removeCopied(copyFile(fs, src, dst), src)

\* moveFiles, "Attempt to move using os.Rename": the fallback after a *LinkError
renamed(res, src, dst) == IF res.ok THEN res ELSE copyAndDelete(res.fs, src, dst)

\* moveFiles, "Check if destination exists", without the error for a
\* missing -f
destinationExistsForced(o) == IF o.NoClobber THEN "skip" ELSE "overwrite"

\* moveFiles, "Check if destination exists", without the -n case
destinationExistsNoSkip(o) == IF ~o.Force THEN "refuse" ELSE "overwrite"

\* moveFiles, "Check if destination exists": what is done about a target
\* that exists
destinationExists(o) ==
    IF o.NoClobber THEN "skip" ELSE IF ~o.Force THEN "refuse" ELSE "overwrite"

\* moveFiles: targetPath
TargetPath(isDir, dst, src) == IF isDir THEN PathJoin(dst, Base(src)) ELSE dst

\* the outcome of one iteration of moveFiles' loop
Outcome(outcome, res) == [outcome |-> outcome, fs |-> res.fs, err |-> res.err]

\* the outcome of os.Rename and its fallback
moved(res) == Outcome(IF res.ok THEN "moved" ELSE "failed", res)

\* one iteration of moveFiles' loop after the target is looked at
moveTo(fs, src, target, decision) ==
    IF Exists(fs, target) /\ decision = "skip" THEN Outcome("skipped", Done(fs))
    ELSE IF Exists(fs, target) /\ decision = "refuse"
    THEN Outcome("failed", Failed(fs, "already exists"))
    ELSE moved(renamed(Rename(fs, src, target), src, target))

\* one iteration of moveFiles' loop
moveOne(fs, src, target, o) ==
    IF ~Exists(fs, src) THEN Outcome("failed", Failed(fs, "no such file or directory"))
    ELSE moveTo(fs, src, target, destinationExists(o))

\* a file system: the entries a, b, d and, when d is a directory, d/a, d/b, d/d
Tree(a, b, d, da, db, dd) ==
    [p \in Paths |->
        CASE p = <<"a">> -> a
          [] p = <<"b">> -> b
          [] p = <<"d">> -> d
          [] p = <<"d", "a">> -> IF d = Dir THEN da ELSE Absent
          [] p = <<"d", "b">> -> IF d = Dir THEN db ELSE Absent
          [] p = <<"d", "d">> -> IF d = Dir THEN dd ELSE Absent]

\* the file systems mv starts on: files, directories, no symbolic links
MvFileSystems ==
    { Tree(a, b, d, da, db, Absent) :
        a \in {Absent, File("A")}, b \in {Absent, File("B")}, d \in {Absent, File("D"), Dir},
        da \in {Absent, File("X"), Dir}, db \in {Absent, File("Y")} }

\* the source arguments: regular files, or missing
MvSources == {<<"a">>, <<"b">>}

MvDestinations == {<<"a">>, <<"b">>, <<"d">>}

MvInit ==
    /\ opts \in [Force : BOOLEAN, NoClobber : BOOLEAN, Verbose : BOOLEAN, Interactive : {FALSE}]
    /\ files \in {srcs \in SeqsUpTo(MvSources, MaxFiles) : srcs # <<>>}
    /\ dest \in MvDestinations
    /\ fsys \in MvFileSystems
    /\ isDestDir = FALSE
    /\ stdin = NoStream
    /\ run = 1
    /\ pc = "start"
    /\ program = NoProgram
    /\ ctx = NoContext
    /\ pos = 0
    /\ out = <<>>
    /\ hist = <<>>
    /\ err = "nil"
    /\ stdout = NewStdout(NoLimit)

\* moveFiles up to its loop
MvStart ==
    /\ pc = "start"
    /\ IF opts.Force /\ opts.NoClobber
       THEN /\ pc' = "failed"
            /\ err' = "cannot specify both -f and -n"
            /\ isDestDir' = isDestDir
       ELSE /\ isDestDir' = IsDir(Stat(fsys, dest))
            /\ IF Len(files) > 1 /\ ~isDestDir'
               THEN pc' = "failed" /\ err' = "is not a directory"
               ELSE pc' = "loop" /\ err' = err
    /\ UNCHANGED <<opts, files, stdin, run, program, ctx, pos, out, hist, stdout, dest, fsys>>

\* moveFiles that undoes the moves of the earlier sources when one fails
MvMoveRollback ==
    /\ pc = "loop"
    /\ run <= Len(files)
    /\ \E target \in {TargetPath(isDestDir, dest, files[run])} :
       \E res \in {moveOne(fsys, files[run], target, opts)} :
           /\ fsys' = IF res.outcome = "failed" /\ hist # <<>> THEN hist[1].before ELSE res.fs
           /\ hist' = Append(hist, [src |-> files[run], target |-> target, before |-> fsys,
                                    outcome |-> res.outcome, err |-> res.err])
           /\ IF res.outcome = "failed"
              THEN pc' = "failed" /\ err' = res.err /\ run' = run
              ELSE pc' = pc /\ err' = err /\ run' = run + 1
           /\ IF res.outcome = "moved" /\ opts.Verbose
              THEN /\ out' = Append(out, [src |-> files[run], target |-> target])
                   /\ stdout' = Emit(<<[src |-> files[run], target |-> target]>>)
              ELSE UNCHANGED <<out, stdout>>
    /\ UNCHANGED <<opts, files, stdin, program, ctx, pos, dest, isDestDir>>

\* moveFiles: one iteration of the loop over the sources
MvMove ==
    /\ pc = "loop"
    /\ run <= Len(files)
    /\ \E target \in {TargetPath(isDestDir, dest, files[run])} :
       \E res \in {moveOne(fsys, files[run], target, opts)} :
           /\ fsys' = res.fs
           /\ hist' = Append(hist, [src |-> files[run], target |-> target, before |-> fsys,
                                    outcome |-> res.outcome, err |-> res.err])
           /\ IF res.outcome = "failed"
              THEN pc' = "failed" /\ err' = res.err /\ run' = run
              ELSE pc' = pc /\ err' = err /\ run' = run + 1
           /\ IF res.outcome = "moved" /\ opts.Verbose
              THEN /\ out' = Append(out, [src |-> files[run], target |-> target])
                   /\ stdout' = Emit(<<[src |-> files[run], target |-> target]>>)
              ELSE UNCHANGED <<out, stdout>>
    /\ UNCHANGED <<opts, files, stdin, program, ctx, pos, dest, isDestDir>>

\* moveFiles: the loop is over, nil is returned
MvReturn ==
    /\ pc = "loop"
    /\ run > Len(files)
    /\ pc' = "done"
    /\ UNCHANGED <<opts, files, stdin, run, program, ctx, pos, out, hist, err, stdout, fsVars>>

MvNext == MvStart \/ MvMove \/ MvReturn

MvSpec == MvInit /\ [][MvNext]_vars

\* the target path of the source src on the file system fs
TargetOn(fs, src) == IF IsDir(Stat(fs, dest)) THEN PathJoin(dest, Base(src)) ELSE dest

\* C15: a moveFiles call with one source that exists and whose target path
\* exists, with neither Force nor NoClobber, returns the 'already exists'
\* error and leaves the file system as it was: source and target keep their
\* content.
C15_ExistingTargetIsAnError ==
    (Len(files) = 1 /\ ~opts.Force /\ ~opts.NoClobber /\ pc \in {"done", "failed"}) =>
        /\ Len(hist) = 1
        /\ (Exists(hist[1].before, files[1]) /\ Exists(hist[1].before, TargetOn(hist[1].before, files[1]))) =>
               /\ pc = "failed"
               /\ err = "already exists"
               /\ fsys = hist[1].before

C15_Witness ==
    /\ files = << <<"a">> >>
    /\ dest = <<"b">>
    /\ ~opts.Force /\ ~opts.NoClobber
    /\ pc = "failed"
    /\ err = "already exists"
    /\ fsys[<<"a">>] = File("A")
    /\ fsys[<<"b">>] = File("B")

\* C16: with NoClobber (and without Force, which moveFiles rejects together
\* with it) an iteration whose source exists and whose target exists skips
\* the source without an error: the file system is as before, so the source
\* is in place and the target keeps its content; a call with one such
\* source returns nil.
C16_NoClobberSkipsExistingTarget ==
    (opts.NoClobber /\ ~opts.Force) =>
        /\ \A i \in 1..Len(hist) :
               (Exists(hist[i].before, hist[i].src)
                    /\ Exists(hist[i].before, TargetOn(hist[i].before, hist[i].src))) =>
                   /\ hist[i].outcome = "skipped"
                   /\ hist[i].err = "nil"
                   /\ (IF i < Len(hist) THEN hist[i + 1].before ELSE fsys) = hist[i].before
        /\ (Len(files) = 1 /\ Len(hist) = 1 /\ hist[1].outcome = "skipped") =>
               (pc \in {"loop", "done"} /\ err = "nil" /\ out = <<>>)

C16_Witness ==
    /\ files = << <<"a">> >>
    /\ dest = <<"d">>
    /\ opts.NoClobber /\ ~opts.Force
    /\ pc = "done"
    /\ err = "nil"
    /\ fsys[<<"a">>] = File("A")
    /\ fsys[<<"d", "a">>] = File("X")

(* ====================== pkg/rm ========================================== *)
\* filepath.Clean, on paths without "..": the "." components are dropped
RECURSIVE Clean(_)
Clean(p) ==
    IF p = <<>> THEN <<>>
    ELSE (IF Head(p) = "." THEN <<>> ELSE <<Head(p)>>) \o Clean(Tail(p))

\* removePath after os.Lstat
removeInfo(fs, path, info, o) ==
    IF info.kind = "none"
    THEN (IF o.Force THEN Done(fs) ELSE Failed(fs, "failed to stat"))
    ELSE IF IsDir(info)
    THEN (IF ~o.Recursive THEN Failed(fs, "Is a directory") ELSE RemoveAll(fs, path))
    ELSE Remove(fs, path)

\* removePath after filepath.Clean
removeClean(fs, path, o) == removeInfo(fs, path, Lstat(fs, path), o)

\* removePath
removePath(fs, path, o) == removeClean(fs, Clean(path), o)

\* the file systems rm starts on: b may be a symbolic link to the file a or
\* to the directory d (dangling when d is missing), d/a a link to a
RmFileSystems ==
    { Tree(File("A"), b, d, da, db, dd) :
        b \in {Absent, File("B"), Link(<<"a">>), Link(<<"d">>)}, d \in {Absent, Dir},
        da \in {Absent, File("X"), Link(<<"a">>)}, db \in {Absent, File("Y")},
        dd \in {Absent, Dir} }

\* the path arguments; d/. is another spelling of d
RmArguments == {<<"a">>, <<"b">>, <<"d">>, <<"d", "a">>, <<"d", ".">>, <<"d", "d">>}

RmInit ==
    /\ opts \in [Recursive : BOOLEAN, Force : BOOLEAN, Verbose : BOOLEAN]
    /\ files \in {args \in SeqsUpTo(RmArguments, MaxFiles) : args # <<>>}
    /\ fsys \in RmFileSystems
    /\ dest = <<>>
    /\ isDestDir = FALSE
    /\ stdin = NoStream
    /\ run = 1
    /\ pc = "loop"
    /\ program = NoProgram
    /\ ctx = NoContext
    /\ pos = 0
    /\ out = <<>>
    /\ hist = <<>>
    /\ err = "nil"
    /\ stdout = NewStdout(NoLimit)

\* RunE: one iteration of the loop over the arguments
RmRemove ==
    /\ pc = "loop"
    /\ run <= Len(files)
    /\ \E res \in {removePath(fsys, files[run], opts)} :
           /\ fsys' = res.fs
           /\ hist' = Append(hist, [path |-> files[run], before |-> fsys, err |-> res.err])
           /\ IF ~res.ok /\ ~opts.Force
              THEN pc' = "failed" /\ err' = res.err /\ run' = run
              ELSE pc' = pc /\ err' = err /\ run' = run + 1
           /\ IF res.ok /\ opts.Verbose
              THEN /\ out' = Append(out, [removed |-> files[run]])
                   /\ stdout' = Emit(<<[removed |-> files[run]]>>)
              ELSE UNCHANGED <<out, stdout>>
    /\ UNCHANGED <<opts, files, stdin, program, ctx, pos, dest, isDestDir>>

\* RunE: the loop is over, nil is returned
RmReturn ==
    /\ pc = "loop"
    /\ run > Len(files)
    /\ pc' = "done"
    /\ UNCHANGED <<opts, files, stdin, run, program, ctx, pos, out, hist, err, stdout, fsVars>>

RmNext == RmRemove \/ RmReturn

RmSpec == RmInit /\ [][RmNext]_vars

\* the directory entry an argument of rm names
Denoted(path) == IF path = <<"d", ".">> THEN <<"d">> ELSE path

\* the file system after the i-th removePath call
After(i) == IF i < Len(hist) THEN hist[i + 1].before ELSE fsys

\* C17: a removePath call on a directory fails with 'Is a directory' and
\* changes nothing without Recursive, and with Recursive removes the
\* directory and everything below it and nothing else; a call on a symbolic
\* link removes the link and nothing else, so its target stays, also when
\* the target is a directory and Recursive is set.
C17_DirectoriesAndLinks ==
    \A i \in 1..Len(hist) :
        LET p == Denoted(hist[i].path)
            before == hist[i].before
        IN  /\ (before[p].kind = "dir" /\ ~opts.Recursive) =>
                   /\ hist[i].err = "Is a directory"
                   /\ After(i) = before
            /\ (before[p].kind = "dir" /\ opts.Recursive) =>
                   /\ hist[i].err = "nil"
                   /\ \A q \in Paths :
                          After(i)[q] = IF Below(p, q) THEN Absent ELSE before[q]
            /\ before[p].kind = "link" =>
                   /\ hist[i].err = "nil"
                   /\ \A q \in Paths : After(i)[q] = IF q = p THEN Absent ELSE before[q]

C17_Witness ==
    /\ files = << <<"b">>, <<"d">> >>
    /\ ~opts.Recursive /\ ~opts.Force
    /\ pc = "failed"
    /\ err = "Is a directory"
    /\ Len(hist) = 2
    /\ hist[1].before[<<"b">>] = Link(<<"d">>)
    /\ fsys[<<"b">>] = Absent
    /\ fsys[<<"d">>] = Dir
    /\ fsys[<<"d", "a">>] = File("X")

\* a removePath call with Recursive has removed a directory with its entries
C17_WitnessRecursive ==
    /\ files = << <<"d", ".">> >>
    /\ opts.Recursive
    /\ pc = "done"
    /\ hist[1].before[<<"d", "a">>] = Link(<<"a">>)
    /\ hist[1].before[<<"d", "d">>] = Dir
    /\ \A q \in Paths : fsys[q] = IF q \in {<<"a">>, <<"b">>} THEN hist[1].before[q] ELSE Absent

(* ====================== pkg/awk, continued ============================== *)
\* the numeric value of field k of a line with the given fields: that of an
\* unsigned decimal number, 0 for any other text and for a missing field
Contribution(fields, k) ==
    IF k \in 1..Len(fields) /\ fields[k] # <<>> /\ \A j \in 1..Len(fields[k]) : IsDigit(fields[k][j])
    THEN DecVal(fields[k])
    ELSE 0

\* the lines of the call's history h on which the pattern holds
Selected(h, pattern) ==
    {i \in 1..Len(h) :
        /\ h[i].ev = "line"
        /\ CASE pattern = "always" -> TRUE
             [] pattern = "NR==2" -> h[i].NR = 2
             [] pattern = "/x/" -> \E j \in 1..Len(h[i].Line) : h[i].Line[j] = "x"}

\* the sum of the contributions of field k over the first n entries of h
\* that are in K
RECURSIVE Total(_, _, _, _)
Total(h, k, K, n) ==
    IF n = 0 THEN 0
    ELSE Total(h, k, K, n - 1) + (IF n \in K THEN Contribution(h[n].Fields, k) ELSE 0)

\* the current processInput call has parsed its program
Parsed == pc \in {"begin", "scan", "end", "done"} \/ (pc = "failed" /\ err = "read error")

C19_ProgramReadOnly ==
    Parsed => program = parseProgram(opts.Program).val

\* the first fields of the lines delivered to the r-th call
FirstFields(r) ==
    [i \in 1..Delivered(r) |-> IF hist[r][i].Fields = <<>> THEN <<>> ELSE hist[r][i].Fields[1]]

\* C20 as stated: an action body with two statements parses without error
\* and is executed as its first statement: `{ print $1; print $2 }` prints
\* the first field of every line, `{ sum+=$1; n+=$2 }` accumulates sum and
\* prints nothing, `{ print; print }` prints every line once.
C20_OnlyFirstStatementRuns ==
    opts.Program \in MultiStatementPrograms =>
        /\ pc = "failed" => err \in {"cannot open", "read error"}
        /\ \A r \in 1..Len(out) :
               (Parsed \/ r < run) =>
                   out[r] = CASE opts.Program = ProgTwoPrints -> FirstFields(r)
                              [] opts.Program = ProgTwoSums -> <<>>
                              [] opts.Program = ProgPrintTwice -> DeliveredLines(r)

\* C20, amended: an action body with two statements is parsed as one
\* statement made of the whole body text.  `{ print $1; print $2 }` and
\* `{ sum+=$1; n+=$2 }` fail to parse with the invalid-field error (the text
\* after "$" up to the end of the body is no number) and nothing runs;
\* `{ print; print }` parses as a print of the variable named "; print" and
\* writes 0 for every line.
C20_BodyIsOneStatement ==
    /\ opts.Program \in {ProgTwoPrints, ProgTwoSums} =>
           /\ pc \in {"start", "failed"}
           /\ NothingRan
           /\ (pc = "failed" /\ Reader.exists) => err = "invalid field"
    /\ opts.Program = ProgPrintTwice =>
           /\ pc = "failed" => err \in {"cannot open", "read error"}
           /\ Parsed =>
                  program.Rules[1].Action.Statements =
                      <<[kind |-> "print", Fields |-> <<[Field |-> 0, Var |-> <<";", " ">> \o kwPrint]>>]>>
           /\ \A r \in 1..Len(out) : out[r] = [i \in 1..Delivered(r) |-> <<"0">>]

C20_Witness ==
    /\ opts.Program = ProgTwoPrints
    /\ pc = "failed"
    /\ err = "invalid field"
    /\ Len(Reader.lines) >= 2
    /\ NothingRan

(* ====================== pkg/awk: splitting and field references ======== *)
\* /END/ { print }
ProgRegexEND == <<"/">> \o kwEND \o <<"/", " ">> \o ProgPrint

\* { print SEND }
ProgPrintSEND == lb \o sp \o kwPrint \o <<" ", "S">> \o kwEND \o sp \o rb

\* { print END }
ProgPrintEND == lb \o sp \o kwPrint \o sp \o kwEND \o sp \o rb

\* { print } END { print END }
ProgEndTwice == ProgPrint \o sp \o kwEND \o sp \o ProgPrintEND

\* BEGIN { print END } { print }
ProgBeginEND == kwBEGIN \o sp \o ProgPrintEND \o sp \o ProgPrint

\* { print $-1 }
ProgPrintNeg == lb \o sp \o kwPrint \o <<" ", "$", "-", "1", " ", "}">>

\* { print $+1 }
ProgPrintPlus == lb \o sp \o kwPrint \o <<" ", "$", "+", "1", " ", "}">>

\* { s+=$-1 }
ProgAccNeg == <<"{", " ", "s", "+", "=", "$", "-", "1", " ", "}">>

\* { s+=$x }
ProgAccBadField == <<"{", " ", "s", "+", "=", "$", "x", " ", "}">>

\* { print $0, $1 }
ProgPrintZero == lb \o sp \o kwPrint \o <<" ", "$", "0", ",", " ", "$", "1", " ", "}">>

\* the programs in which END occurs outside an END block
EndPrograms == {ProgRegexEND, ProgPrintSEND, ProgEndTwice, ProgBeginEND}

\* the programs with a signed or malformed field reference
SignedFieldPrograms == {ProgPrintNeg, ProgPrintPlus, ProgAccNeg, ProgAccBadField, ProgBadField}

SyntaxPrograms ==
    EndPrograms \cup SignedFieldPrograms
        \cup {ProgPrintZero, ProgAcc(0), ProgAcc(1), ProgSwap, ProgSum, ProgAbc, ProgXAcc,
              ProgLineAcc, ProgAll}

SyntaxLines == {<<"3">>, <<"4", " ", "x">>, <<"E", "N", "D">>, <<"a", "b", "c">>}

\* an invocation of awk with one of SyntaxPrograms, on lines of SyntaxLines
SyntaxInit ==
    /\ opts \in [FieldSeparator : Separators, Program : SyntaxPrograms]
    /\ \/ files = <<>> /\ stdin \in {Stream(l, FALSE) : l \in SeqsUpTo(SyntaxLines, MaxLines)}
       \/ files \in FileLists /\ stdin = NoStream
    /\ run = 1
    /\ pc = "start"
    /\ program = NoProgram
    /\ ctx = NoContext
    /\ pos = 0
    /\ out = <<>>
    /\ hist = <<>>
    /\ err = "nil"
    /\ stdout \in {NewStdout(limit) : limit \in StdoutLimits}
    /\ dest = <<>>
    /\ isDestDir = FALSE
    /\ fsys = <<>>

SyntaxSpec == SyntaxInit /\ [][Next]_vars

\* for a program, the text that remains after its BEGIN block and the offset
\* of the first E, N, D in it (-1: none), both written out by hand
EndSplits ==
    { [prog |-> ProgRegexEND, rest |-> ProgRegexEND, at |-> 1],
      [prog |-> ProgPrintSEND, rest |-> ProgPrintSEND, at |-> 9],
      [prog |-> ProgEndTwice, rest |-> ProgEndTwice, at |-> 10],
      [prog |-> ProgSum, rest |-> ProgSum, at |-> 12],
      [prog |-> ProgAll, rest |-> ProgPrint \o sp \o kwEND \o sp \o ProgPrint, at |-> 10],
      [prog |-> ProgBeginEND, rest |-> ProgPrint, at |-> -1] }

\* at is the offset of the first occurrence of END in rest
IsFirstEND(rest, at) ==
    IF at = -1
    THEN \A i \in 1..(Len(rest) - 2) : <<rest[i], rest[i + 1], rest[i + 2]>> # kwEND
    ELSE /\ <<rest[at + 1], rest[at + 2], rest[at + 3]>> = kwEND
         /\ \A i \in 1..at : <<rest[i], rest[i + 1], rest[i + 2]>> # kwEND

\* the invocation failed with parse error e before anything ran
FailedWith(e) ==
    /\ pc = "failed"
    /\ err \in {e, "cannot open"}
    /\ NothingRan

\* the current Program has the statements of END action end and of rule
\* rules, which were compiled on their own
CompiledFrom(end, rules) ==
    /\ Len(program.End) = Len(end)
    /\ \A i \in 1..Len(end) : program.End[i].Statements = end[i].Statements
    /\ Len(program.Rules) = Len(rules)
    /\ \A i \in 1..Len(rules) :
           /\ program.Rules[i].Pattern = rules[i].Pattern
           /\ program.Rules[i].Action.Statements = rules[i].Action.Statements

SplitOutcome(end, rules) ==
    IF ~end.ok THEN FailedWith(end.err)
    ELSE IF ~rules.ok THEN FailedWith(rules.err)
    ELSE /\ pc = "failed" => err \in {"read error", "cannot open"}
         /\ Parsed => CompiledFrom(end.val, rules.val)

\* C21: the text after BEGIN is split at the first E, N, D in it, wherever
\* that lies: what follows is compiled as the END action and what precedes
\* as the rule, so that /END/ { print } and { print SEND } fail with the END
\* action's error and never print a line, and { print } END { print END }
\* has the END action { print END }
C21_SplitsAtFirstEND ==
    \A e \in EndSplits :
        opts.Program = e.prog /\ pc # "start" =>
            /\ IsFirstEND(e.rest, e.at)
            /\ IF e.at = -1
               THEN SplitOutcome(Ok(<<>>), parseRules(TrimSpace(e.rest)))
               ELSE SplitOutcome(pointerTo(parseAction(SliceFrom(e.rest, e.at + 3))),
                                 parseRules(TrimSpace(Slice(e.rest, 0, e.at))))

\* /END/ { print } has failed on an input with a line END
C21_Witness ==
    /\ opts.Program = ProgRegexEND
    /\ pc = "failed"
    /\ err = "action must be enclosed in braces"
    /\ files = <<>>
    /\ \E i \in 1..Len(stdin.lines) : stdin.lines[i] = kwEND

\* { print } END { print END } has run to its END action, which printed the
\* unset variable END
C21_WitnessEndTwice ==
    /\ opts.Program = ProgEndTwice
    /\ pc = "done"
    /\ files = <<>>
    /\ Len(stdin.lines) = 1
    /\ out[1] = <<stdin.lines[1], <<"0">> >>

(* ====================== pkg/awk: the shape of a Program ================= *)
\* the actions of the current Program
Actions ==
    program.Begin \o program.End \o [i \in 1..Len(program.Rules) |-> program.Rules[i].Action]

\* the programs that have no rule text
RulelessPrograms == EmptyPrograms \cup {ProgBeginOnly, ProgEndOnly}

\* C22 as stated: every parsed Program holds at most one BEGIN action, at
\* most one END action and exactly one rule, and every Action in it at most
\* one statement
C22_ExactlyOneRule ==
    Parsed =>
        /\ Len(program.Begin) <= 1
        /\ Len(program.End) <= 1
        /\ Len(program.Rules) = 1
        /\ \A i \in 1..Len(Actions) : Len(Actions[i].Statements) <= 1

\* C22, amended: every parsed Program holds at most one BEGIN action, at most
\* one END action and at most one rule -- none exactly when the text between
\* BEGIN block and END is empty -- and every Action in it at most one
\* statement
C22_AtMostOneOfEach ==
    Parsed =>
        /\ Len(program.Begin) <= 1
        /\ Len(program.End) <= 1
        /\ Len(program.Rules) <= 1
        /\ program.Rules = <<>> <=> opts.Program \in RulelessPrograms
        /\ \A i \in 1..Len(Actions) : Len(Actions[i].Statements) <= 1

\* a program of a BEGIN block alone has run over two lines with no rule
C22_Witness ==
    /\ opts.Program = ProgBeginOnly
    /\ pc = "done"
    /\ err = "nil"
    /\ Len(program.Begin) = 1
    /\ Len(program.Begin[1].Statements) = 1
    /\ program.Rules = <<>>
    /\ program.End = <<>>
    /\ Len(Reader.lines) >= 2

(* ====================== pkg/awk: field references ====================== *)
\* C23: a field reference is accepted only with a non-negative integer after
\* the $: a program that refers to $-1, in a print list or in an accumulate
\* expression, fails to parse with the invalid-field error and runs nothing
C23_NegativeFieldIsRejected ==
    opts.Program \in {ProgPrintNeg, ProgAccNeg} =>
        /\ pc \in {"start", "failed"}
        /\ pc = "failed" => err \in {"invalid field", "cannot open"}
        /\ NothingRan

\* { print $-1 } was accepted and has printed an empty line for a line of
\* the input
C23_NegativeFieldRuns ==
    /\ opts.Program = ProgPrintNeg
    /\ pc = "done"
    /\ err = "nil"
    /\ program.Rules[1].Action.Statements[1].Fields[1].Field = 0 - 1
    /\ Len(Reader.lines) >= 1
    /\ \A i \in 1..Len(out[run]) : out[run][i] = <<>>
    /\ Len(out[run]) = Len(Reader.lines)

\* the history h with the whole line of every entry as its only field
WholeLines(h) == [i \in 1..Len(h) |-> [h[i] EXCEPT !.Fields = <<h[i].Line>>]]

\* C24: field 0 is the whole record in an accumulate expression as in print:
\* { s+=$0 } holds in s, after every line, the sum of the numeric values of
\* the whole lines read so far, and { print $0, $1 } prints the whole line
\* followed by its first field
C24_FieldZeroIsWholeRecord ==
    /\ (opts.Program = ProgAcc(0) /\ Parsed) =>
           MapGet(program.Rules[1].Action.Variables.m, <<"s">>)
               = Total(WholeLines(hist[run]), 1, Selected(hist[run], "always"), Len(hist[run]))
    /\ (opts.Program = ProgPrintZero /\ Parsed) =>
           \A i \in 1..Len(out[run]) :
               out[run][i] = Reader.lines[i] \o sp
                                 \o (IF splitFields(Reader.lines[i], opts.FieldSeparator) = <<>>
                                     THEN <<>>
                                     ELSE splitFields(Reader.lines[i], opts.FieldSeparator)[1])

\* { s+=$0 } has read the one line 3 and s is still 0
C24_FieldZeroAddsNothing ==
    /\ opts.Program = ProgAcc(0)
    /\ pc = "done"
    /\ files = <<>>
    /\ stdin.lines = << <<"3">> >>
    /\ MapGet(program.Rules[1].Action.Variables.m, <<"s">>) = 0

\* the print half of C24 on its own
C24_PrintZeroIsWholeLine ==
    (opts.Program = ProgPrintZero /\ Parsed) =>
        \A i \in 1..Len(out[run]) :
            /\ Len(out[run][i]) >= Len(Reader.lines[i])
            /\ SubSeq(out[run][i], 1, Len(Reader.lines[i])) = Reader.lines[i]

(* ====================== pkg/awk: BinaryExpression.Evaluate ============== *)
\* the largest magnitude of a variable's value
MaxValue == 2

\* the operators of a BinaryExpression: the four of Evaluate and one it does
\* not know
Operators == {"+", "-", "*", "/", "%"}

\* the operands: a field, or a variable
Operands ==
    {[kind |-> "field", FieldNum |-> k] : k \in 1..2}
        \cup {[kind |-> "variable", Name |-> n] : n \in {<<"a">>, <<"b">>}}

BinaryExpressions ==
    {[kind |-> "binary", Left |-> l, Op |-> op, Right |-> r] :
        l \in Operands, op \in Operators, r \in Operands}

\* the texts of a field: numbers, and a text that is no number
FieldTexts == {<<"0">>, <<"3">>, <<"-", "4">>, <<"x">>}

\* a call of Evaluate: the expression and the variables in opts, the fields
\* in ctx
EvalInit ==
    /\ opts \in [Expr : BinaryExpressions, Vars : [{<<"a">>, <<"b">>} -> (0 - MaxValue)..MaxValue]]
    /\ ctx \in {[NewContext(<<" ">>) EXCEPT !.Fields = <<f>>, !.NF = 1, !.NR = 1] : f \in FieldTexts}
    /\ files = <<>>
    /\ stdin = NoStream
    /\ run = 1
    /\ pc = "start"
    /\ program = NoProgram
    /\ pos = 0
    /\ out = <<>>
    /\ hist = <<>>
    /\ err = "nil"
    /\ stdout = NewStdout(NoLimit)
    /\ dest = <<>>
    /\ isDestDir = FALSE
    /\ fsys = <<>>

\* e.Evaluate(ctx, vars): out holds the value returned
EvalApply ==
    /\ pc = "start"
    /\ out' = <<Evaluate(opts.Expr, ctx, opts.Vars)>>
    /\ pc' = "done"
    /\ UNCHANGED <<opts, files, stdin, run, program, ctx, pos, hist, err, stdout>>
    /\ UNCHANGED fsVars

EvalNext == EvalApply

EvalSpec == EvalInit /\ [][EvalNext]_vars

\* q is the quotient of l by r: q times r is l
IsQuotient(q, l, r) ==
    /\ q.den >= 1
    /\ q.num * r = l * q.den

\* the value of a field or a variable, read directly from the call's inputs
OperandValue(e) ==
    IF e.kind = "variable" THEN opts.Vars[e.Name]
    ELSE IF e.FieldNum = 1
         THEN CASE ctx.Fields[1] = <<"3">> -> 3
                [] ctx.Fields[1] = <<"-", "4">> -> 0 - 4
                [] OTHER -> 0
         ELSE 0

\* C25: a division whose right operand evaluates to 0 yields 0, whatever the
\* left operand, and signals no error; with any other right operand it
\* yields the quotient of left by right
C25_DivisionByZeroIsZero ==
    (pc = "done" /\ opts.Expr.Op = "/") =>
        /\ err = "nil"
        /\ Len(out) = 1
        /\ IF OperandValue(opts.Expr.Right) = 0
           THEN out[1].num = 0 /\ out[1].den = 1
           ELSE IsQuotient(out[1], OperandValue(opts.Expr.Left), OperandValue(opts.Expr.Right))

\* a non-zero variable has been divided by a field that is not a number
C25_Witness ==
    /\ pc = "done"
    /\ opts.Expr.Op = "/"
    /\ opts.Expr.Left = [kind |-> "variable", Name |-> <<"a">>]
    /\ opts.Expr.Right = [kind |-> "field", FieldNum |-> 1]
    /\ opts.Vars[<<"a">>] = 2
    /\ ctx.Fields = << <<"x">> >>
    /\ out = <<Whole(0)>>

\* 3 has been divided by -2
C25_WitnessQuotient ==
    /\ pc = "done"
    /\ opts.Expr.Op = "/"
    /\ OperandValue(opts.Expr.Left) = 3
    /\ OperandValue(opts.Expr.Right) = 0 - 2
    /\ out = <<[num |-> 0 - 3, den |-> 2]>>

(* ====================== pkg/sed, continued ============================== *)
\* C26: the expression is parsed once per run: with a malformed expression
\* the run never ends without an error, whatever the input (an empty input
\* included), and no line is ever written
C26_MalformedIsAlwaysReported ==
    opts.Expression \in SedMalformed =>
        /\ pc # "done"
        /\ pc = "failed" => err \in SedParseErrors \cup {"cannot open"}
        /\ \A r \in 1..Len(out) : out[r] = <<>>

\* the run of the malformed expression x on the empty standard input has
\* ended without an error
C26_EmptyInputHidesTheError ==
    /\ opts.Expression = <<"x">>
    /\ files = <<>>
    /\ stdin.lines = <<>>
    /\ pc = "done"
    /\ err = "nil"

\* the part of C26 that holds: a malformed expression is reported at the
\* first line read, before any line is written
C26_ReportedAtFirstLine ==
    opts.Expression \in SedMalformed =>
        /\ \A r \in 1..Len(out) : out[r] = <<>>
        /\ pos <= 1
        /\ pos = 1 => pc = "failed"

(* ====================== pkg/awk: lines that do not match ================ *)
\* the pattern of the program does not hold on the line, the nr-th of its
\* input: read from the program's text and the line's characters
PatternFails(prog, line, nr) ==
    CASE prog = ProgAbc -> ~ContainsAbc(line)
      [] prog = ProgXAcc -> \A j \in 1..Len(line) : line[j] # "x"
      [] prog = ProgLineAcc -> nr # 2
      [] OTHER -> FALSE

\* C27: a step of the scanner loop over a line on which the rule's pattern
\* does not match writes no line and changes no variable of any action: it
\* changes only the record number, the current line, the field list and the
\* field count of the Context (and the scanner's position)
C27_NonMatchingLineChangesOnlyRecord ==
    [][(/\ pc = "scan"
        /\ pos < Len(Reader.lines)
        /\ PatternFails(opts.Program, Reader.lines[pos + 1], ctx.NR + 1))
       => /\ out' = out
          /\ stdout' = stdout
          /\ program' = program
          /\ UNCHANGED <<opts, files, stdin, run, pc, err, fsVars>>
          /\ pos' = pos + 1
          /\ ctx'.FS = ctx.FS
          /\ ctx'.NR = ctx.NR + 1
          /\ ctx'.Line = Reader.lines[pos + 1]
          /\ ctx'.Fields = splitFields(Reader.lines[pos + 1], opts.FieldSeparator)
          /\ ctx'.NF = Len(ctx'.Fields)]_vars

\* /x/ { s+=$1 } has read the line "4 x" and then the line 3, which has no
\* x: s is still 4 and nothing was written
C27_Witness ==
    /\ opts.Program = ProgXAcc
    /\ opts.FieldSeparator = <<" ">>
    /\ files = <<>>
    /\ pos = 2
    /\ stdin.lines[1] = <<"4", " ", "x">>
    /\ stdin.lines[2] = <<"3">>
    /\ ctx.NR = 2
    /\ ctx.Line = <<"3">>
    /\ ctx.Fields = << <<"3">> >>
    /\ program.Rules[1].Action.Variables.m[<<"s">>] = 4
    /\ out[1] = <<>>
    /\ ~hist[1][2].matched

(* ====================== pkg/awk: read errors ============================ *)
\* the r-th processInput call has executed the END action
EndExecuted(r) == \E i \in 1..Len(hist[r]) : hist[r][i].ev = "end"

\* the r-th processInput call is over
CallOver(r) == r < run \/ pc \in {"done", "failed"}

\* C28: a call whose input fails part-way returns the read error and never
\* executes END, and the lines printed for the lines read before the failure
\* stay written; END is executed only in a call that read its whole input
\* without a read error
C28_ReadErrorSkipsEnd ==
    \A r \in 1..Len(hist) :
        /\ EndExecuted(r) => ~ReaderOf(r).fails /\ Delivered(r) = Len(ReaderOf(r).lines)
        /\ (ReaderOf(r).exists /\ ReaderOf(r).fails /\ CallOver(r)) =>
               /\ r = run
               /\ pc = "failed"
               /\ err \in {"read error"} \cup ParseErrors
               /\ ~EndExecuted(r)
               /\ opts.Program = ProgAll =>
                      /\ err = "read error"
                      /\ out[r] = << <<>> >> \o ReaderOf(r).lines
        /\ (opts.Program = ProgAll /\ r < run) =>
               out[r] = << <<>> >> \o ReaderOf(r).lines
                            \o (IF ReaderOf(r).lines = <<>> THEN << <<>> >>
                                ELSE <<ReaderOf(r).lines[Len(ReaderOf(r).lines)]>>)

\* BEGIN { print } { print } END { print } has read the line abc of a file
\* whose scanner then failed: the lines of BEGIN and of abc are written, END
\* did not run
C28_Witness ==
    /\ opts.Program = ProgAll
    /\ Len(files) = 1
    /\ files[1].fails
    /\ pc = "failed"
    /\ err = "read error"
    /\ out = << << <<>>, <<"a", "b", "c">> >> >>
    /\ ~EndExecuted(1)

(* ====================== pkg/sed: editing in place ======================= *)
\* processLines after processLine for the first line and processLines for
\* the lines after it
processLinesAfter(r, rest) ==
    IF r.err # "nil" THEN Err(r.err)
    ELSE IF ~rest.ok THEN rest
    ELSE Ok((IF r.skip THEN <<>> ELSE <<r.output>>) \o rest.val)

\* processLines, for the lines from number lineNum on
RECURSIVE processLines(_, _, _)
processLines(lines, lineNum, o) ==
    IF lines = <<>> THEN Ok(<<>>)
    ELSE processLinesAfter(processLine(Head(lines), lineNum, o),
                           processLines(Tail(lines), lineNum + 1, o))

\* what processInPlace leaves: the lines of the file and the error returned
InPlaceResult(lines, e) == [lines |-> lines, err |-> e]

\* processInPlace that creates the file before it processes the lines
writeBackFirst(file, res) ==
    IF file.readonly THEN InPlaceResult(file.lines, "cannot write")
    ELSE IF ~res.ok THEN InPlaceResult(<<>>, res.err)
    ELSE InPlaceResult(res.val, "nil")

\* processInPlace from "Process lines" on: the error of processLines is
\* returned before os.Create; os.Create fails on a file that cannot be
\* written; else the result lines are written
writeBack(file, res) ==
    IF ~res.ok THEN InPlaceResult(file.lines, res.err)
    ELSE IF file.readonly THEN InPlaceResult(file.lines, "cannot write")
    ELSE InPlaceResult(res.val, "nil")

\* processFile with -i: os.Open, the scanner loop, and the rest
processInPlace(file, o) ==
    IF ~file.exists THEN InPlaceResult(file.lines, "cannot open")
    ELSE IF file.fails THEN InPlaceResult(file.lines, "read error")
    ELSE writeBack(file, processLines(file.lines, 1, o))

\* a file argument of sed -i
InPlaceFile(lines, fails, readonly) ==
    [exists |-> TRUE, lines |-> lines, fails |-> fails, readonly |-> readonly]

InPlaceFiles ==
    { [exists |-> FALSE, lines |-> <<>>, fails |-> FALSE, readonly |-> FALSE],
      InPlaceFile(<<>>, FALSE, FALSE),
      InPlaceFile(<< <<"a", "b", "c">> >>, FALSE, FALSE),
      InPlaceFile(<< <<"b">>, <<"a", "b", "c">> >>, FALSE, FALSE),
      InPlaceFile(<< <<"a", "b", "c">>, <<"b", "b">>, <<"x">> >>, FALSE, FALSE),
      InPlaceFile(<< <<"b">>, <<"x">> >>, TRUE, FALSE),
      InPlaceFile(<< <<"a", "b", "c">>, <<"x">> >>, FALSE, TRUE) }

\* sed -i: the command line and the files named on it
SedInPlaceInit ==
    /\ opts \in [InPlace : {TRUE}, Quiet : BOOLEAN, Extended : {FALSE}, Expression : SedExpressions]
    /\ files \in {fl \in SeqsUpTo(InPlaceFiles, MaxFiles) : fl # <<>>}
    /\ stdin = NoStream
    /\ run = 1
    /\ pc = "start"
    /\ program = NoProgram
    /\ ctx = NoContext
    /\ pos = 0
    /\ out = <<>>
    /\ hist = <<>>
    /\ err = "nil"
    /\ stdout = NewStdout(NoLimit)
    /\ dest = <<>>
    /\ isDestDir = FALSE
    /\ fsys = <<>>

\* one iteration of RunE's loop: processFile and processInPlace for the file
SedEditFile ==
    /\ pc = "start"
    /\ hist' = Append(hist, [before |-> files[run].lines])
    /\ \E res \in {processInPlace(files[run], opts)} :
           /\ files' = [files EXCEPT ![run].lines = res.lines]
           /\ err' = res.err
           /\ IF res.err # "nil" THEN pc' = "failed" /\ run' = run
              ELSE IF run < Len(files) THEN pc' = "start" /\ run' = run + 1
              ELSE pc' = "done" /\ run' = run
    /\ UNCHANGED <<opts, stdin, program, ctx, pos, out, stdout, fsVars>>

SedInPlaceNext == SedEditFile

SedInPlaceSpec == SedInPlaceInit /\ [][SedInPlaceNext]_vars

\* the line after s/b/x/ (all = FALSE) or s/b/x/g (all = TRUE), for the
\* lines of InPlaceFiles
Substituted(line, all) ==
    CASE line = <<"a", "b", "c">> -> <<"a", "x", "c">>
      [] line = <<"b">> -> <<"x">>
      [] line = <<"b", "b">> -> IF all THEN <<"x", "x">> ELSE <<"x", "b">>
      [] OTHER -> line

\* the numbers of the lines that the well-formed expression expr keeps
Kept(expr, lines) ==
    CASE expr = SedDeleteAbc -> {i \in 1..Len(lines) : ~ContainsAbc(lines[i])}
      [] expr = SedPrintAbc -> {i \in 1..Len(lines) : ContainsAbc(lines[i])}
      [] expr = SedPrintLine(2) -> {2} \cap (1..Len(lines))
      [] expr \in {SedDeleteLine(n) : n \in 1..(MaxLines + 1)} ->
             {i \in 1..Len(lines) : expr # SedDeleteLine(i)}
      [] OTHER -> 1..Len(lines)

\* the content of a file with the given lines after a successful sed -i of
\* the well-formed expression expr
Edited(expr, lines) ==
    IF expr \in {SedSubstitute, SedSubstituteAll}
    THEN [i \in 1..Len(lines) |-> Substituted(lines[i], expr = SedSubstituteAll)]
    ELSE SelectLines(lines, Kept(expr, lines))

\* C29: sed -i rewrites a file only after every line of it was processed
\* without error: the file of a call that returned an error holds what it
\* held before, a malformed expression fails on every non-empty readable
\* file and leaves it as it was, and after a successful call the file holds
\* the lines that were not skipped, transformed, in their order; nothing is
\* written to standard output, with or without -n
C29_InPlaceIsAllOrNothing ==
    /\ out = <<>>
    /\ stdout.lines = <<>>
    /\ \A r \in 1..Len(hist) :
           /\ (r = run /\ pc = "failed") => files[r].lines = hist[r].before
           /\ (opts.Expression \in SedMalformed /\ files[r].exists /\ ~files[r].fails
                   /\ hist[r].before # <<>>) =>
                  /\ pc = "failed"
                  /\ err \in SedParseErrors
                  /\ files[r].lines = hist[r].before
           /\ (r < run \/ pc = "done") =>
                  IF opts.Expression \in SedMalformed
                  THEN hist[r].before = <<>> /\ files[r].lines = <<>>
                  ELSE files[r].lines = Edited(opts.Expression, hist[r].before)

\* the first file was rewritten without its second line, the second file
\* cannot be written and is as it was
C29_Witness ==
    /\ opts.Expression = SedDeleteLine(2)
    /\ Len(files) = 2
    /\ Len(hist) = 2
    /\ pc = "failed"
    /\ err = "cannot write"
    /\ Len(hist[1].before) = 3
    /\ files[1].lines = <<hist[1].before[1], hist[1].before[3]>>
    /\ files[2].lines = hist[2].before

\* the malformed expression s/b has left a file of three lines as it was
C29_WitnessMalformed ==
    /\ opts.Expression = <<"s", "/", "b">>
    /\ pc = "failed"
    /\ err = "invalid substitute command"
    /\ Len(hist[1].before) = 3
    /\ files[1].lines = hist[1].before

(* ====================== pkg/mv: several sources ========================= *)
\* the call has several sources, all different, and failed in the loop
FailedInLoop ==
    /\ Len(files) > 1
    /\ \A j, k \in 1..Len(files) : j # k => files[j] # files[k]
    /\ pc = "failed"
    /\ hist # <<>>

\* the j-th source is in the directory with the content it had when the call
\* began, and no longer in its place
MovedToDirectory(j) ==
    /\ hist[j].outcome = "moved"
    /\ fsys[PathJoin(dest, Base(files[j]))] = hist[1].before[files[j]]
    /\ fsys[files[j]] = Absent

\* the j-th source was skipped: with NoClobber, its target existing; source
\* and target are as they were when the call began
SkippedInPlace(j) ==
    /\ hist[j].outcome = "skipped"
    /\ opts.NoClobber
    /\ Exists(hist[1].before, PathJoin(dest, Base(files[j])))
    /\ fsys[PathJoin(dest, Base(files[j]))] = hist[1].before[PathJoin(dest, Base(files[j]))]
    /\ fsys[files[j]] = hist[1].before[files[j]]

\* the sources are handled in argument order, the failing iteration is the
\* last and changed nothing, its error is returned, and its source and the
\* sources after it are as they were when the call began
FailureStopsTheLoop ==
    /\ \A j \in 1..Len(hist) : hist[j].src = files[j]
    /\ run = Len(hist)
    /\ hist[Len(hist)].outcome = "failed"
    /\ err = hist[Len(hist)].err
    /\ fsys = hist[Len(hist)].before
    /\ \A k \in Len(hist)..Len(files) : fsys[files[k]] = hist[1].before[files[k]]

====
